---- MODULE Spec2Model ----
(***************************************************************************)
(* Model of the container library: the BinarySearchTree (nodes kept as a   *)
(* heap of objects so that aliasing between links is visible), its four    *)
(* traversal iterators, the BinaryHeap, and the calls made on them.        *)
(***************************************************************************)
EXTENDS Integers, Sequences, FiniteSets, Bags, TLC

\* ---------------------------------------------------------------- bounds
\* Elements handed to the tree are the integers 1..MaxVal.
MaxVal == 5
\* At most MaxNodes node objects are live at once.
MaxNodes == 5
\* At most MaxRemoves successful remove calls are made in one run.
MaxRemoves == 3
\* Trees walked by two iterators at once hold the elements 1..MaxIterVal.
MaxIterVal == 3
\* Elements handed to the heap are the integers 0..MaxHeapVal.
MaxHeapVal == 2
\* The heap holds at most MaxHeapSize elements.
MaxHeapSize == 6
\* The heap is constructed from an array of at most MaxItems items.
MaxItems == 4
\* A heap that is filled and then polled empty holds at most MaxDrain elements.
MaxDrain == 4
\* Items handed to the linked lists are the integers 0..MaxListVal.
MaxListVal == 1
\* A linked list holds at most MaxListLen items.
MaxListLen == 3
\* Elements handed to the stack and the queue are the integers 0..MaxBoxVal.
MaxBoxVal == 2
\* The stack and the queue hold at most MaxBox elements.
MaxBox == 3

Values == 1..MaxVal
NodeIds == 1..MaxNodes

\* The absent link (null).
NULL == 0

VARIABLES
  nodes,    \* the live BinarySearchNode objects: id -> [value, left, right]
  root,     \* BinarySearchTree._root (a node id or NULL)
  size,     \* BinarySearchTree._size
  present,  \* history: the elements added and not since removed
  removes,  \* history: the number of successful remove calls so far
  last,     \* the last call made: [op, arg, ok, out]
  iters,    \* the two traversal iterator objects: [kind, it, out, done]
  heapKind, \* the comparator the heap was constructed with: "max" or "min"
  heap,     \* BinaryHeap._heap; heap[i + 1] is the code's _heap[i]
  hlast,    \* the last call made on the heap: [op, arg, ok, out]
  polled,   \* history: <<v>> when the last successful poll returned v
  addedSince, \* history: add was called since the last successful poll
  given,    \* history of a fill-and-drain run: [items, added], the array the
            \* heap was constructed from and the elements added since, in order
  drained,  \* history of a fill-and-drain run: the poll results so far
  held,     \* history: the bag of elements given or added to the heap and
            \* not since returned by a successful poll or remove
  sifted,   \* history: [index, newIndex] of the last call when it was a remove
            \* that sifted the element swapped in
  sll,      \* a SinglyLinkedList: [nodes, head, size]
  dll,      \* a DoublyLinkedList given the same calls: [nodes, head, tail, size]
  llast,    \* the last call made on both lists and what each gave:
            \* [op, item, index, singly, doubly]
  subject,  \* the container a run is about: "stack" or "queue"
  theStack, \* a Stack: [list], its DoublyLinkedList
  theQueue, \* a Queue: [list], its DoublyLinkedList
  clast,    \* the last call made on the container: [op, arg, ok, out]
  inside    \* history: the elements pushed or enqueued and not since taken
            \* out, oldest first

treeVars == <<nodes, root, size, present, removes, last>>
heapVars == <<heapKind, heap, hlast, polled, addedSince, given, drained, held, sifted>>
listVars == <<sll, dll, llast>>
boxVars == <<subject, theStack, theQueue, clast, inside>>
vars == <<treeVars, iters, heapVars, listVars, boxVars>>

\* ------------------------------------------------------------ comparator
\* The three-way comparator over numbers used throughout the test suite.
comparator(a, b) == IF a > b THEN 1 ELSE IF a < b THEN -1 ELSE 0

\* ----------------------------------------------------------- node objects
BinarySearchNode(v, l, r) == [value |-> v, left |-> l, right |-> r]

\* The heap h with object n set to rec (allocating n when it is new).
Store(h, n, rec) == [m \in (DOMAIN h) \cup {n} |-> IF m = n THEN rec ELSE h[m]]

\* The id a freshly constructed node gets: the least id not in use
\* (MaxNodes + 1 when every id is in use).
NewNode(h) ==
  IF \E n \in NodeIds : n \notin DOMAIN h
    THEN CHOOSE n \in NodeIds :
           /\ n \notin DOMAIN h
           /\ \A m \in 1..(n - 1) : m \in DOMAIN h
    ELSE MaxNodes + 1

\* The objects reachable from node n, in the order a left-first descent meets
\* them (seen: those met so far).
RECURSIVE Visit(_, _, _)
Visit(h, n, seen) ==
  IF n = NULL \/ \E i \in 1..Len(seen) : seen[i] = n
    THEN seen
    ELSE Visit(h, h[n].right, Visit(h, h[n].left, Append(seen, n)))

\* Object identity: a node is known to the program only through the links that
\* lead to it.  Unreachable objects are dropped (garbage collection) and the
\* reachable ones are named 1, 2, ... in the order Visit meets them, so that
\* two heaps with the same links and values are the same state.
Collect(h, r) ==
  LET order == Visit(h, r, <<>>)
      name(n) == IF n = NULL THEN NULL
                 ELSE CHOOSE i \in 1..Len(order) : order[i] = n
  IN [nodes |-> [i \in 1..Len(order) |->
                   BinarySearchNode(h[order[i]].value,
                                    name(h[order[i]].left),
                                    name(h[order[i]].right))],
      root |-> name(r)]

\* ------------------------------------------------------- private methods
RECURSIVE findMinInTree(_, _, _)
findMinInTree(h, rt, parent) ==
  IF h[rt].left # NULL
    THEN findMinInTree(h, h[rt].left, h[rt].left)
    ELSE [node |-> rt, parent |-> parent]

isLeaf(h, n) == h[n].left = NULL /\ h[n].right = NULL

\* Mutant of findUnderSubtree: a miss returns the node the search stopped at.
RECURSIVE findUnderSubtreeNearest(_, _, _, _)
findUnderSubtreeNearest(h, element, rt, parent) ==
  LET compareResult == comparator(element, h[rt].value) IN
  IF compareResult = 0 THEN [node |-> rt, parent |-> parent]
  ELSE IF compareResult = 1 /\ h[rt].right # NULL
    THEN findUnderSubtreeNearest(h, element, h[rt].right, rt)
  ELSE IF compareResult = -1 /\ h[rt].left # NULL
    THEN findUnderSubtreeNearest(h, element, h[rt].left, rt)
  ELSE [node |-> rt, parent |-> parent]

RECURSIVE findUnderSubtree(_, _, _, _)
findUnderSubtree(h, element, rt, parent) ==
  LET compareResult == comparator(element, h[rt].value) IN
  IF compareResult = 0 THEN [node |-> rt, parent |-> parent]
  ELSE IF compareResult = 1 /\ h[rt].right # NULL
    THEN findUnderSubtree(h, element, h[rt].right, rt)
  ELSE IF compareResult = -1 /\ h[rt].left # NULL
    THEN findUnderSubtree(h, element, h[rt].left, rt)
  ELSE [node |-> NULL, parent |-> NULL]

RECURSIVE addUnderSubtree(_, _, _)
addUnderSubtree(h, element, rt) ==
  LET compareResult == comparator(element, h[rt].value)
      n == NewNode(h)
  IN
  IF compareResult = 1 THEN
    IF h[rt].right # NULL
      THEN addUnderSubtree(h, element, h[rt].right)
      ELSE [nodes |-> Store(Store(h, n, BinarySearchNode(element, NULL, NULL)),
                            rt, [h[rt] EXCEPT !.right = n]),
            added |-> n]
  ELSE IF compareResult = -1 THEN
    IF h[rt].left # NULL
      THEN addUnderSubtree(h, element, h[rt].left)
      ELSE [nodes |-> Store(Store(h, n, BinarySearchNode(element, NULL, NULL)),
                            rt, [h[rt] EXCEPT !.left = n]),
            added |-> n]
  ELSE [nodes |-> h, added |-> NULL]

\* -------------------------------------------------------- public methods
\* add(element): the tree afterwards.
add(h, r, s, element) ==
  IF r = NULL THEN
    LET n == NewNode(h) IN
    [nodes |-> Store(h, n, BinarySearchNode(element, NULL, NULL)),
     root |-> n, size |-> s + 1]
  ELSE
    LET res == addUnderSubtree(h, element, r) IN
    [nodes |-> res.nodes, root |-> r,
     size |-> IF res.added # NULL THEN s + 1 ELSE s]

\* find(element): the node found, or NULL.
find(h, r, element) ==
  IF r = NULL THEN NULL ELSE findUnderSubtree(h, element, r, NULL).node


\* parent[side] = target
SetSide(h, p, side, target) ==
  Store(h, p, IF side = "left" THEN [h[p] EXCEPT !.left = target]
                               ELSE [h[p] EXCEPT !.right = target])

\* "if (parent) parent[parentSide] = target; else this._root = target"
Splice(t, parent, side, target) ==
  IF parent # NULL
    THEN [t EXCEPT !.nodes = SetSide(t.nodes, parent, side, target)]
    ELSE [t EXCEPT !.root = target]

\* remove, case 2d: the node to remove has both sub trees.
RemoveBothSubTrees(t, toRemove) ==
  LET h == t.nodes
      m == findMinInTree(h, h[toRemove].right, toRemove)
      successor == m.node
      successorParent == m.parent
      h1 == Store(h, toRemove, [h[toRemove] EXCEPT !.value = h[successor].value])
      h2 == IF successor = h1[toRemove].right
              THEN Store(h1, toRemove,
                         [h1[toRemove] EXCEPT !.right = h1[successor].right])
              ELSE Store(h1, successorParent,
                         [h1[successorParent] EXCEPT !.left = h1[successor].right])
  IN [t EXCEPT !.nodes = h2]

\* remove(element): ok is FALSE when RangeError is thrown (nothing is changed),
\* otherwise the tree afterwards and the value returned.
remove(h, r, s, element) ==
  LET thrown == [ok |-> FALSE, nodes |-> h, root |-> r, size |-> s, ret |-> NULL]
  IN
  IF r = NULL THEN thrown
  ELSE
    LET fr == findUnderSubtree(h, element, r, NULL)
        toRemove == fr.node
        parent == fr.parent
    IN
    IF toRemove = NULL THEN thrown
    ELSE
      LET parentSide ==
            IF /\ parent # NULL
               /\ h[parent].left # NULL
               /\ comparator(h[toRemove].value, h[h[parent].left].value) = 0
              THEN "left" ELSE "right"
          t0 == [nodes |-> h, root |-> r]
          \* 2a. leaf
          t1 == IF isLeaf(t0.nodes, toRemove)
                  THEN Splice(t0, parent, parentSide, NULL) ELSE t0
          \* 2b. only right subtree
          t2 == IF t1.nodes[toRemove].right # NULL /\ t1.nodes[toRemove].left = NULL
                  THEN Splice(t1, parent, parentSide, t1.nodes[toRemove].right)
                  ELSE t1
          \* 2c. only left subtree
          t3 == IF t2.nodes[toRemove].left # NULL /\ t2.nodes[toRemove].right = NULL
                  THEN Splice(t2, parent, parentSide, t2.nodes[toRemove].left)
                  ELSE t2
          \* 2d. both sub trees
          t4 == IF t3.nodes[toRemove].left # NULL /\ t3.nodes[toRemove].right # NULL
                  THEN RemoveBothSubTrees(t3, toRemove) ELSE t3
      IN [ok |-> TRUE, nodes |-> t4.nodes, root |-> t4.root, size |-> s - 1,
          ret |-> element]

\* ------------------------------------------------------- Stack and Queue
\* The Stack and the Queue the iterators use, as the sequence of their items.
Last(s) == s[Len(s)]
Front(s) == SubSeq(s, 1, Len(s) - 1)
StackPush(stack, e) == Append(stack, e)
StackPop(stack) == [stack |-> Front(stack), value |-> Last(stack)]
QueueEnqueue(queue, e) == Append(queue, e)
QueueDequeue(queue) == [queue |-> Tail(queue), value |-> Head(queue)]

\* ------------------------------------------------------------ traversals
\* Each iterator is its private fields; XNext is one call of next(), giving
\* the iterator afterwards, done and value; XSpread is [...tree.traverseX()].
PushIf(stack, n) == IF n # NULL THEN StackPush(stack, n) ELSE stack

TraversePreOrderIterator(h, r) == [stack |-> PushIf(<<>>, r)]

\* Mutant of PreOrderNext: the left child is pushed before the right one.
PreOrderNextLeftFirst(h, r, it) ==
  IF r = NULL \/ it.stack = <<>>
    THEN [it |-> it, done |-> TRUE, value |-> NULL]
    ELSE LET p == StackPop(it.stack)
             node == p.value
         IN [it |-> [stack |-> PushIf(PushIf(p.stack, h[node].left), h[node].right)],
             done |-> FALSE, value |-> h[node].value]

PreOrderNext(h, r, it) ==
  IF r = NULL \/ it.stack = <<>>
    THEN [it |-> it, done |-> TRUE, value |-> NULL]
    ELSE LET p == StackPop(it.stack)
             node == p.value
         IN [it |-> [stack |-> PushIf(PushIf(p.stack, h[node].right), h[node].left)],
             done |-> FALSE, value |-> h[node].value]

RECURSIVE PreOrderSpread(_, _, _)
PreOrderSpread(h, r, it) ==
  LET n == PreOrderNext(h, r, it) IN
  IF n.done THEN <<>> ELSE <<n.value>> \o PreOrderSpread(h, r, n.it)

traversePreOrder(h, r) == PreOrderSpread(h, r, TraversePreOrderIterator(h, r))

TraverseInOrderIterator(h, r) == [stack |-> PushIf(<<>>, r), trav |-> r]

\* Mutant of DigLeft: an if in place of the while, one step down at most.
DigLeftOnce(h, it) ==
  IF it.trav # NULL /\ h[it.trav].left # NULL
    THEN [stack |-> StackPush(it.stack, h[it.trav].left), trav |-> h[it.trav].left]
    ELSE it

RECURSIVE DigLeft(_, _)
DigLeft(h, it) ==
  IF it.trav # NULL /\ h[it.trav].left # NULL
    THEN DigLeft(h, [stack |-> StackPush(it.stack, h[it.trav].left),
                     trav |-> h[it.trav].left])
    ELSE it

InOrderNext(h, r, it) ==
  IF r = NULL \/ it.stack = <<>>
    THEN [it |-> it, done |-> TRUE, value |-> NULL]
    ELSE LET d == DigLeft(h, it)
             p == StackPop(d.stack)
             node == p.value
         IN [it |-> IF h[node].right # NULL
                      THEN [stack |-> StackPush(p.stack, h[node].right),
                            trav |-> h[node].right]
                      ELSE [stack |-> p.stack, trav |-> d.trav],
             done |-> FALSE, value |-> h[node].value]

RECURSIVE InOrderSpread(_, _, _)
InOrderSpread(h, r, it) ==
  LET n == InOrderNext(h, r, it) IN
  IF n.done THEN <<>> ELSE <<n.value>> \o InOrderSpread(h, r, n.it)

traverseInOrder(h, r) == InOrderSpread(h, r, TraverseInOrderIterator(h, r))

\* Mutant of PostOrderFill: the right child is pushed before the left one.
RECURSIVE PostOrderFillRightFirst(_, _, _)
PostOrderFillRightFirst(h, stack1, stack2) ==
  IF stack1 = <<>> THEN stack2
  ELSE LET p == StackPop(stack1)
           node == p.value
       IN IF node # NULL
            THEN PostOrderFillRightFirst(h,
                   PushIf(PushIf(p.stack, h[node].right), h[node].left),
                   StackPush(stack2, node))
            ELSE PostOrderFillRightFirst(h, p.stack, stack2)

RECURSIVE PostOrderFill(_, _, _)
PostOrderFill(h, stack1, stack2) ==
  IF stack1 = <<>> THEN stack2
  ELSE LET p == StackPop(stack1)
           node == p.value
       IN IF node # NULL
            THEN PostOrderFill(h, PushIf(PushIf(p.stack, h[node].left), h[node].right),
                               StackPush(stack2, node))
            ELSE PostOrderFill(h, p.stack, stack2)

TraversePostOrderIterator(h, r) == [stack2 |-> PostOrderFill(h, PushIf(<<>>, r), <<>>)]

PostOrderNext(h, r, it) ==
  IF r = NULL \/ it.stack2 = <<>>
    THEN [it |-> it, done |-> TRUE, value |-> NULL]
    ELSE LET p == StackPop(it.stack2)
         IN [it |-> [stack2 |-> p.stack], done |-> FALSE, value |-> h[p.value].value]

RECURSIVE PostOrderSpread(_, _, _)
PostOrderSpread(h, r, it) ==
  LET n == PostOrderNext(h, r, it) IN
  IF n.done THEN <<>> ELSE <<n.value>> \o PostOrderSpread(h, r, n.it)

traversePostOrder(h, r) == PostOrderSpread(h, r, TraversePostOrderIterator(h, r))

EnqueueIf(queue, n) == IF n # NULL THEN QueueEnqueue(queue, n) ELSE queue

TraverseLevelOrderIterator(h, r) == [queue |-> EnqueueIf(<<>>, r)]

\* Mutant of LevelOrderNext: the right child is enqueued before the left one.
LevelOrderNextRightFirst(h, r, it) ==
  IF r = NULL \/ it.queue = <<>>
    THEN [it |-> it, done |-> TRUE, value |-> NULL]
    ELSE LET p == QueueDequeue(it.queue)
             node == p.value
         IN [it |-> [queue |-> EnqueueIf(EnqueueIf(p.queue, h[node].right),
                                         h[node].left)],
             done |-> FALSE, value |-> h[node].value]

LevelOrderNext(h, r, it) ==
  IF r = NULL \/ it.queue = <<>>
    THEN [it |-> it, done |-> TRUE, value |-> NULL]
    ELSE LET p == QueueDequeue(it.queue)
             node == p.value
         IN [it |-> [queue |-> EnqueueIf(EnqueueIf(p.queue, h[node].left),
                                         h[node].right)],
             done |-> FALSE, value |-> h[node].value]

RECURSIVE LevelOrderSpread(_, _, _)
LevelOrderSpread(h, r, it) ==
  LET n == LevelOrderNext(h, r, it) IN
  IF n.done THEN <<>> ELSE <<n.value>> \o LevelOrderSpread(h, r, n.it)

traverseLevelOrder(h, r) == LevelOrderSpread(h, r, TraverseLevelOrderIterator(h, r))

\* ---------------------------------------------------------------- actions
Call(op, arg, ok, out) == [op |-> op, arg |-> arg, ok |-> ok, out |-> out]

\* new BinarySearchTree(comparator)
TreeInit ==
  /\ nodes = <<>>
  /\ root = NULL
  /\ size = 0
  /\ present = {}
  /\ removes = 0
  /\ last = Call("new", 0, TRUE, <<>>)

\* No iterator has been asked for yet.
NoIterator == [kind |-> "none", it |-> <<>>, out |-> <<>>, done |-> FALSE]
ItersInit == iters = [i \in 1..2 |-> NoIterator]

\* No fill-and-drain run is recorded.
NoDrain == given = [items |-> <<>>, added |-> <<>>] /\ drained = <<>>

\* No remove() has sifted an element: the call made last was not a remove.
NoSift == [index |-> 0 - 1, newIndex |-> 0 - 1]

\* new BinaryHeap(maxComparator)
HeapEmptyInit ==
  /\ heapKind = "max"
  /\ heap = <<>>
  /\ hlast = Call("new", <<>>, TRUE, <<>>)
  /\ polled = <<>>
  /\ addedSince = FALSE
  /\ held = EmptyBag
  /\ sifted = NoSift
  /\ NoDrain

\* new SinglyLinkedList() and new DoublyLinkedList(), no call made yet
ListsInit ==
  /\ sll = [nodes |-> <<>>, head |-> NULL, size |-> 0]
  /\ dll = [nodes |-> <<>>, head |-> NULL, tail |-> NULL, size |-> 0]
  /\ llast = [op |-> "new", item |-> 0, index |-> 0,
              singly |-> [ok |-> TRUE, ret |-> 0],
              doubly |-> [ok |-> TRUE, ret |-> 0]]

\* new Stack() and new Queue(), no call made yet
BoxesInit ==
  /\ subject = "stack"
  /\ theStack = [list |-> [nodes |-> <<>>, head |-> NULL, tail |-> NULL, size |-> 0]]
  /\ theQueue = [list |-> [nodes |-> <<>>, head |-> NULL, tail |-> NULL, size |-> 0]]
  /\ clast = Call("new", <<>>, TRUE, <<>>)
  /\ inside = <<>>

Init == TreeInit /\ ItersInit /\ HeapEmptyInit /\ ListsInit /\ BoxesInit

\* tree.add(element)
Add(element) ==
  \E res \in {add(nodes, root, size, element)} :
    /\ DOMAIN res.nodes \subseteq NodeIds
    /\ \E live \in {Collect(res.nodes, res.root)} :
         nodes' = live.nodes /\ root' = live.root
    /\ size' = res.size
    /\ present' = present \cup {element}
    /\ last' = Call("add", element, TRUE, <<>>)
    /\ UNCHANGED <<removes, iters, heapVars, listVars, boxVars>>

\* tree.remove(element), returning the element or throwing RangeError
Remove(element) ==
  \E res \in {remove(nodes, root, size, element)} :
    /\ res.ok => removes < MaxRemoves
    /\ \E live \in {Collect(res.nodes, res.root)} :
         nodes' = live.nodes /\ root' = live.root
    /\ size' = res.size
    /\ present' = IF res.ok THEN present \ {element} ELSE present
    /\ removes' = IF res.ok THEN removes + 1 ELSE removes
    /\ last' = Call("remove", element, res.ok, IF res.ok THEN <<res.ret>> ELSE <<>>)
    /\ UNCHANGED <<iters, heapVars, listVars, boxVars>>

\* tree.find(element): out holds the value of the node found, if any
Find(element) ==
  LET node == find(nodes, root, element) IN
  /\ last' = Call("find", element, TRUE,
                  IF node = NULL THEN <<>> ELSE <<nodes[node].value>>)
  /\ UNCHANGED <<nodes, root, size, present, removes, iters, heapVars, listVars, boxVars>>

\* [...tree.traversePreOrder()] and the three others
Traverse ==
  /\ \/ last' = Call("traversePreOrder", 0, TRUE, traversePreOrder(nodes, root))
     \/ last' = Call("traverseInOrder", 0, TRUE, traverseInOrder(nodes, root))
     \/ last' = Call("traversePostOrder", 0, TRUE, traversePostOrder(nodes, root))
     \/ last' = Call("traverseLevelOrder", 0, TRUE, traverseLevelOrder(nodes, root))
  /\ UNCHANGED <<nodes, root, size, present, removes, iters, heapVars, listVars, boxVars>>

Next ==
  \/ \E element \in Values : Add(element)
  \/ \E element \in Values : Remove(element)
  \/ \E element \in Values : Find(element)
  \/ Traverse

Spec == Init /\ [][Next]_vars

\* The tree under add calls alone, with the calls that read it.
NextAdd ==
  \/ \E element \in Values : Add(element)
  \/ \E element \in Values : Find(element)
  \/ Traverse

SpecAdd == Init /\ [][NextAdd]_vars

\* The tree under the calls that change it.
NextMutate ==
  \/ \E element \in Values : Add(element)
  \/ \E element \in Values : Remove(element)

SpecMutate == Init /\ [][NextMutate]_vars

\* ------------------------------------------------- two iterators at once
IterKinds == {"traversePreOrder", "traverseInOrder", "traversePostOrder",
              "traverseLevelOrder"}

\* tree.traverseX(): the fresh iterator object of the kind asked for
NewIterator(kind, h, r) ==
  [kind |-> kind,
   it |-> CASE kind = "traversePreOrder" -> TraversePreOrderIterator(h, r)
            [] kind = "traverseInOrder" -> TraverseInOrderIterator(h, r)
            [] kind = "traversePostOrder" -> TraversePostOrderIterator(h, r)
            [] kind = "traverseLevelOrder" -> TraverseLevelOrderIterator(h, r),
   out |-> <<>>, done |-> FALSE]

\* iterator.next() on an iterator object: its fields afterwards, with the
\* value appended to what it has yielded, or done recorded.
IteratorNext(h, r, o) ==
  LET n == CASE o.kind = "traversePreOrder" -> PreOrderNext(h, r, o.it)
             [] o.kind = "traverseInOrder" -> InOrderNext(h, r, o.it)
             [] o.kind = "traversePostOrder" -> PostOrderNext(h, r, o.it)
             [] o.kind = "traverseLevelOrder" -> LevelOrderNext(h, r, o.it)
  IN [kind |-> o.kind, it |-> n.it,
      out |-> IF n.done THEN o.out ELSE Append(o.out, n.value),
      done |-> n.done]

\* Mutant of CallNext: the stack or queue is one object shared by all the
\* iterators of a kind instead of a private field of each.
CallNextShared(its, i, h, r) ==
  LET o == IteratorNext(h, r, its[i]) IN
  [j \in DOMAIN its |->
     IF j = i THEN o
     ELSE IF its[j].kind = o.kind THEN [its[j] EXCEPT !.it = o.it]
     ELSE its[j]]

\* The iterator objects after next() is called on the i-th of them.
CallNext(its, i, h, r) == [its EXCEPT ![i] = IteratorNext(h, r, its[i])]

\* it = tree.traverseX() for the i-th iterator variable
OpenIterator(i, kind) ==
  /\ iters[i].kind = "none"
  /\ iters' = [iters EXCEPT ![i] = NewIterator(kind, nodes, root)]
  /\ UNCHANGED <<treeVars, heapVars, listVars, boxVars>>

\* it.next() for the i-th iterator variable
IteratorStep(i) ==
  /\ iters[i].kind # "none"
  /\ iters' = CallNext(iters, i, nodes, root)
  /\ UNCHANGED <<treeVars, heapVars, listVars, boxVars>>

\* tree.add(element) while no iterator is in use
AddBeforeIterating(element) ==
  /\ \A i \in DOMAIN iters : iters[i].kind = "none"
  /\ Add(element)

NextIter ==
  \/ \E element \in 1..MaxIterVal : AddBeforeIterating(element)
  \/ \E i \in 1..2, kind \in IterKinds : OpenIterator(i, kind)
  \/ \E i \in 1..2 : IteratorStep(i)

SpecIter == Init /\ [][NextIter]_vars


\* ------------------------------------------------------------ BinaryHeap
HeapValues == 0..MaxHeapVal

\* What reading an array at an index it does not have gives (undefined).
Undefined == -1

\* The min-heap comparator of the test suite (the max-heap one is comparator).
minComparator(a, b) == IF b > a THEN 1 ELSE IF b < a THEN -1 ELSE 0

\* this.comparator, for a heap of the kind given
HeapComparator(kind, a, b) ==
  IF kind = "max" THEN comparator(a, b) ELSE minComparator(a, b)

\* util/exists: the value is neither undefined nor null (0 does exist).
exists(v) == v # Undefined

\* this._heap[index]
At(hp, index) == IF index \in 0..(Len(hp) - 1) THEN hp[index + 1] ELSE Undefined

heapPropertyHolds(kind, parent, child) == HeapComparator(kind, parent, child) # -1

childrenIndexesOf(index) == <<2 * index + 1, 2 * index + 2>>

\* Mutant of parentIndexOf: half the index, whatever its parity.
parentIndexOfHalf(index) ==
  IF index = 0 THEN -1 ELSE index \div 2

parentIndexOf(index) ==
  IF index = 0 THEN -1
  ELSE IF index % 2 = 0 THEN (index - 2) \div 2 ELSE (index - 1) \div 2

swap(hp, indexA, indexB) ==
  [hp EXCEPT ![indexA + 1] = hp[indexB + 1], ![indexB + 1] = hp[indexA + 1]]

swapWithLast(hp, index) == swap(hp, index, Len(hp) - 1)

\* Mutant of heapifyUpLoop: an if in place of the while, one swap at most.
heapifyUpLoopOnce(kind, hp, current, currentIndex) ==
  LET parentIndex == parentIndexOf(currentIndex)
      parent == At(hp, parentIndex)
  IN IF parent # Undefined /\ ~heapPropertyHolds(kind, parent, current)
       THEN [ok |-> TRUE,
             heap |-> [hp EXCEPT ![parentIndex + 1] = current,
                                 ![currentIndex + 1] = parent],
             index |-> parentIndex]
       ELSE [ok |-> TRUE, heap |-> hp, index |-> currentIndex]

\* The while loop of heapifyUp.
RECURSIVE heapifyUpLoop(_, _, _, _)
heapifyUpLoop(kind, hp, current, currentIndex) ==
  LET parentIndex == parentIndexOf(currentIndex)
      parent == At(hp, parentIndex)
  IN IF parent # Undefined /\ ~heapPropertyHolds(kind, parent, current)
       THEN heapifyUpLoop(kind,
              [hp EXCEPT ![parentIndex + 1] = current, ![currentIndex + 1] = parent],
              current, parentIndex)
       ELSE [ok |-> TRUE, heap |-> hp, index |-> currentIndex]

\* Mutant of heapifyUp: the element is left where it was put.
heapifyUpNoMove(kind, hp, index) ==
  IF ~exists(At(hp, index))
    THEN [ok |-> FALSE, heap |-> hp, index |-> index]
    ELSE [ok |-> TRUE, heap |-> hp, index |-> index]

\* heapifyUp(index): ok is FALSE when it throws RangeError
heapifyUp(kind, hp, index) ==
  IF ~exists(At(hp, index))
    THEN [ok |-> FALSE, heap |-> hp, index |-> index]
    ELSE heapifyUpLoop(kind, hp, At(hp, index), index)

\* Mutant of toSwapIndex: of two children the one of lower priority is taken.
toSwapIndexOther(kind, hp, index) ==
  LET c == childrenIndexesOf(index)
      leftChild == At(hp, c[1])
      rightChild == At(hp, c[2])
  IN IF ~exists(leftChild) THEN c[2]
     ELSE IF ~exists(rightChild) THEN c[1]
     ELSE IF heapPropertyHolds(kind, leftChild, rightChild) THEN c[2] ELSE c[1]

\* Mutant of toSwapIndex: of two children that tie the right one is taken.
toSwapIndexRightOnTie(kind, hp, index) ==
  LET c == childrenIndexesOf(index)
      leftChild == At(hp, c[1])
      rightChild == At(hp, c[2])
  IN IF ~exists(leftChild) THEN c[2]
     ELSE IF ~exists(rightChild) THEN c[1]
     ELSE IF HeapComparator(kind, leftChild, rightChild) = 1 THEN c[1] ELSE c[2]

\* The index heapifyDown swaps with.
toSwapIndex(kind, hp, index) ==
  LET c == childrenIndexesOf(index)
      leftChild == At(hp, c[1])
      rightChild == At(hp, c[2])
  IN IF ~exists(leftChild) THEN c[2]
     ELSE IF ~exists(rightChild) THEN c[1]
     ELSE IF heapPropertyHolds(kind, leftChild, rightChild) THEN c[1] ELSE c[2]

\* Mutant of heapifyDownLoop: the left child is swapped with whenever there
\* is one, whatever the right child holds.
RECURSIVE heapifyDownLoopLeft(_, _, _, _)
heapifyDownLoopLeft(kind, hp, current, index) ==
  LET c == childrenIndexesOf(index)
      leftChild == At(hp, c[1])
      rightChild == At(hp, c[2])
  IN IF \/ exists(leftChild) /\ ~heapPropertyHolds(kind, current, leftChild)
        \/ exists(rightChild) /\ ~heapPropertyHolds(kind, current, rightChild)
       THEN LET to == IF exists(leftChild) THEN c[1] ELSE c[2]
            IN heapifyDownLoopLeft(kind, swap(hp, to, index), current, to)
       ELSE [ok |-> TRUE, heap |-> hp, index |-> index]

\* The while loop of heapifyDown.
RECURSIVE heapifyDownLoop(_, _, _, _)
heapifyDownLoop(kind, hp, current, index) ==
  LET c == childrenIndexesOf(index)
      leftChild == At(hp, c[1])
      rightChild == At(hp, c[2])
  IN IF \/ exists(leftChild) /\ ~heapPropertyHolds(kind, current, leftChild)
        \/ exists(rightChild) /\ ~heapPropertyHolds(kind, current, rightChild)
       THEN LET to == toSwapIndex(kind, hp, index)
            IN heapifyDownLoop(kind, swap(hp, to, index), current, to)
       ELSE [ok |-> TRUE, heap |-> hp, index |-> index]

\* heapifyDown(index): ok is FALSE when it throws RangeError
heapifyDown(kind, hp, index) ==
  IF ~exists(At(hp, index))
    THEN [ok |-> FALSE, heap |-> hp, index |-> index]
    ELSE heapifyDownLoop(kind, hp, At(hp, index), index)

\* Mutant of ConstructLoop: the loop stops before index 0.
RECURSIVE ConstructLoopSkipRoot(_, _, _)
ConstructLoopSkipRoot(kind, hp, i) ==
  IF i < 1 THEN [ok |-> TRUE, heap |-> hp]
  ELSE LET d == heapifyDown(kind, hp, i)
       IN IF d.ok THEN ConstructLoopSkipRoot(kind, d.heap, i - 1)
          ELSE [ok |-> FALSE, heap |-> d.heap]

\* The for loop of the constructor, from index i down to 0.
RECURSIVE ConstructLoop(_, _, _)
ConstructLoop(kind, hp, i) ==
  IF i < 0 THEN [ok |-> TRUE, heap |-> hp]
  ELSE LET d == heapifyDown(kind, hp, i)
       IN IF d.ok THEN ConstructLoop(kind, d.heap, i - 1)
          ELSE [ok |-> FALSE, heap |-> d.heap]

\* new BinaryHeap(comparator, items)
BinaryHeap(kind, its) == ConstructLoop(kind, its, Len(its) - 1)

\* heap.add(element)
heapAdd(kind, hp, element) ==
  LET pushed == Append(hp, element)
      u == heapifyUp(kind, pushed, Len(pushed) - 1)
  IN [ok |-> u.ok, heap |-> u.heap]

\* Mutant of heapPoll: the array is not shortened.
heapPollKeepLast(kind, hp) ==
  IF Len(hp) = 0 THEN [ok |-> FALSE, heap |-> hp, ret |-> Undefined]
  ELSE LET first == At(hp, 0)
           d == heapifyDown(kind, swapWithLast(hp, 0), 0)
       IN [ok |-> d.ok, heap |-> d.heap, ret |-> first]

\* Mutant of heapPoll: no check for the empty heap, _heap[0] is handed back.
heapPollUnchecked(kind, hp) ==
  IF Len(hp) = 0 THEN [ok |-> TRUE, heap |-> hp, ret |-> At(hp, 0)]
  ELSE LET first == At(hp, 0)
           popped == Front(swapWithLast(hp, 0))
           d == IF Len(popped) > 0 THEN heapifyDown(kind, popped, 0)
                ELSE [ok |-> TRUE, heap |-> popped, index |-> 0]
       IN [ok |-> d.ok, heap |-> d.heap, ret |-> first]

\* heap.poll(): ok is FALSE when it throws RangeError
heapPoll(kind, hp) ==
  IF Len(hp) = 0 THEN [ok |-> FALSE, heap |-> hp, ret |-> Undefined]
  ELSE LET first == At(hp, 0)
           popped == Front(swapWithLast(hp, 0))
           d == IF Len(popped) > 0 THEN heapifyDown(kind, popped, 0)
                ELSE [ok |-> TRUE, heap |-> popped, index |-> 0]
       IN [ok |-> d.ok, heap |-> d.heap, ret |-> first]

\* heap.peek()
heapPeek(hp) == At(hp, 0)

\* this._heap.indexOf(element)
indexOf(hp, element) ==
  IF \E i \in 1..Len(hp) : hp[i] = element
    THEN (CHOOSE i \in 1..Len(hp) :
            hp[i] = element /\ \A j \in 1..(i - 1) : hp[j] # element) - 1
    ELSE -1

\* Mutant of heapRemove: an absent element takes the last element away,
\* as _heap.pop() after indexOf gave -1 would.
heapRemoveUnchecked(kind, hp, element) ==
  LET index == indexOf(hp, element) IN
  IF index = -1 THEN [ok |-> hp # <<>>, heap |-> Front(hp), ret |-> element]
  ELSE LET popped == Front(swapWithLast(hp, index))
       IN IF Len(popped) > 0 /\ index < Len(popped)
            THEN LET u == heapifyUp(kind, popped, index)
                     d == IF u.ok /\ u.index = index
                            THEN heapifyDown(kind, u.heap, u.index) ELSE u
                 IN [ok |-> d.ok, heap |-> d.heap, ret |-> element]
            ELSE [ok |-> TRUE, heap |-> popped, ret |-> element]

\* Mutant of heapRemove: after the swap the element is only sifted down.
heapRemoveDownOnly(kind, hp, element) ==
  LET index == indexOf(hp, element) IN
  IF index = -1 THEN [ok |-> FALSE, heap |-> hp, ret |-> Undefined]
  ELSE LET popped == Front(swapWithLast(hp, index))
       IN IF Len(popped) > 0 /\ index < Len(popped)
            THEN LET d == heapifyDown(kind, popped, index)
                 IN [ok |-> d.ok, heap |-> d.heap, ret |-> element]
            ELSE [ok |-> TRUE, heap |-> popped, ret |-> element]

\* Mutant of heapRemove: after the swap the element is only sifted up.
heapRemoveUpOnly(kind, hp, element) ==
  LET index == indexOf(hp, element) IN
  IF index = -1 THEN [ok |-> FALSE, heap |-> hp, ret |-> Undefined]
  ELSE LET popped == Front(swapWithLast(hp, index))
       IN IF Len(popped) > 0 /\ index < Len(popped)
            THEN LET u == heapifyUp(kind, popped, index)
                 IN [ok |-> u.ok, heap |-> u.heap, ret |-> element]
            ELSE [ok |-> TRUE, heap |-> popped, ret |-> element]

\* heap.remove(element): ok is FALSE when it throws RangeError
heapRemove(kind, hp, element) ==
  LET index == indexOf(hp, element) IN
  IF index = -1 THEN [ok |-> FALSE, heap |-> hp, ret |-> Undefined]
  ELSE LET popped == Front(swapWithLast(hp, index))
       IN IF Len(popped) > 0 /\ index < Len(popped)
            THEN LET u == heapifyUp(kind, popped, index)
                     d == IF u.ok /\ u.index = index
                            THEN heapifyDown(kind, u.heap, u.index) ELSE u
                 IN [ok |-> d.ok, heap |-> d.heap, ret |-> element]
            ELSE [ok |-> TRUE, heap |-> popped, ret |-> element]

\* Mutant of heapContains: only the top of the heap is looked at.
heapContainsTop(hp, element) == hp # <<>> /\ hp[1] = element

\* heap.contains(element)
heapContains(hp, element) == \E i \in 1..Len(hp) : hp[i] = element

\* The arrays a heap is constructed from.
ItemArrays == UNION {[1..n -> HeapValues] : n \in 0..MaxItems}

\* The bag of the elements of sequence s.
RECURSIVE BagOfSeq(_)
BagOfSeq(s) ==
  IF s = <<>> THEN EmptyBag ELSE SetToBag({Head(s)}) (+) BagOfSeq(Tail(s))

\* The fields after new BinaryHeap(comparator, its)
Constructed(kind, its) ==
  \E res \in {BinaryHeap(kind, its)} :
    /\ heapKind = kind
    /\ heap = res.heap
    /\ hlast = Call("new", its, res.ok, <<>>)
    /\ polled = <<>>
    /\ addedSince = FALSE
    /\ held = BagOfSeq(its)
    /\ sifted = NoSift

\* new BinaryHeap(comparator, items), with either comparator and any array
HeapInit ==
  /\ nodes = <<>> /\ root = NULL /\ size = 0 /\ present = {} /\ removes = 0
  /\ last = Call("new", 0, TRUE, <<>>)
  /\ iters = [i \in 1..2 |-> NoIterator]
  /\ ListsInit
  /\ BoxesInit
  /\ given = [items |-> <<>>, added |-> <<>>] /\ drained = <<>>
  /\ \E kind \in {"max", "min"}, its \in ItemArrays : Constructed(kind, its)

\* heap.add(element): the fields of the heap afterwards
CallAdd(element) ==
  /\ Len(heap) < MaxHeapSize
  /\ \E res \in {heapAdd(heapKind, heap, element)} :
       /\ heap' = res.heap
       /\ hlast' = Call("add", element, res.ok, <<>>)
  /\ addedSince' = TRUE
  /\ held' = held (+) SetToBag({element})
  /\ sifted' = NoSift
  /\ UNCHANGED <<heapKind, polled, treeVars, iters, listVars, boxVars>>

\* heap.poll(): the fields of the heap afterwards
CallPoll ==
  \E res \in {heapPoll(heapKind, heap)} :
    /\ heap' = res.heap
    /\ hlast' = Call("poll", Undefined, res.ok, IF res.ok THEN <<res.ret>> ELSE <<>>)
    /\ polled' = IF res.ok THEN <<res.ret>> ELSE polled
    /\ addedSince' = IF res.ok THEN FALSE ELSE addedSince
    /\ held' = IF res.ok THEN held (-) SetToBag({res.ret}) ELSE held
    /\ sifted' = NoSift
    /\ UNCHANGED <<heapKind, treeVars, iters, listVars, boxVars>>

HeapAdd(element) == CallAdd(element) /\ UNCHANGED <<given, drained>>

HeapPoll == CallPoll /\ UNCHANGED <<given, drained>>

\* Mutant of HeapPeek: the element handed back is taken off the array.
HeapPeekTaking ==
  /\ heap' = IF heap = <<>> THEN heap ELSE Tail(heap)
  /\ hlast' = Call("peek", Undefined, TRUE, <<heapPeek(heap)>>)
  /\ sifted' = NoSift
  /\ UNCHANGED <<heapKind, polled, addedSince, given, drained, held, treeVars, iters, listVars, boxVars>>

HeapPeek ==
  /\ hlast' = Call("peek", Undefined, TRUE, <<heapPeek(heap)>>)
  /\ sifted' = NoSift
  /\ UNCHANGED <<heapKind, heap, polled, addedSince, given, drained, held, treeVars, iters, listVars, boxVars>>

\* The locals of remove(element): index, where the element was found, and
\* newIndex, where heapifyUp left the element swapped in (no sift is made
\* when the element is absent or was the last of the array).
RemoveSift(kind, hp, element) ==
  LET index == indexOf(hp, element) IN
  IF index = -1 \/ index >= Len(hp) - 1 THEN NoSift
  ELSE [index |-> index,
        newIndex |-> heapifyUp(kind, Front(swapWithLast(hp, index)), index).index]

HeapRemove(element) ==
  \E res \in {heapRemove(heapKind, heap, element)} :
    /\ heap' = res.heap
    /\ hlast' = Call("remove", element, res.ok, IF res.ok THEN <<res.ret>> ELSE <<>>)
    /\ held' = IF res.ok THEN held (-) SetToBag({element}) ELSE held
    /\ sifted' = RemoveSift(heapKind, heap, element)
    /\ UNCHANGED <<heapKind, polled, addedSince, given, drained, treeVars, iters, listVars, boxVars>>

HeapContains(element) ==
  /\ hlast' = Call("contains", element, TRUE, <<heapContains(heap, element)>>)
  /\ sifted' = NoSift
  /\ UNCHANGED <<heapKind, heap, polled, addedSince, given, drained, held, treeVars, iters, listVars, boxVars>>

NextHeap ==
  \/ \E element \in HeapValues : HeapAdd(element)
  \/ HeapPoll
  \/ HeapPeek
  \/ \E element \in HeapValues : HeapRemove(element)
  \/ \E element \in HeapValues : HeapContains(element)

SpecHeap == HeapInit /\ [][NextHeap]_vars

\* ------------------------------------------------- filling, then draining
\* new BinaryHeap(comparator, items), with the array recorded
DrainInit ==
  /\ nodes = <<>> /\ root = NULL /\ size = 0 /\ present = {} /\ removes = 0
  /\ last = Call("new", 0, TRUE, <<>>)
  /\ iters = [i \in 1..2 |-> NoIterator]
  /\ ListsInit
  /\ BoxesInit
  /\ drained = <<>>
  /\ \E kind \in {"max", "min"}, its \in ItemArrays :
       Constructed(kind, its) /\ given = [items |-> its, added |-> <<>>]

\* heap.add(element) before the first poll
DrainAdd(element) ==
  /\ hlast.op # "poll"
  /\ Len(heap) < MaxDrain
  /\ CallAdd(element)
  /\ given' = [given EXCEPT !.added = Append(@, element)]
  /\ UNCHANGED drained

\* heap.poll(), the result kept
DrainPoll ==
  /\ CallPoll
  /\ drained' = IF hlast'.ok THEN drained \o hlast'.out ELSE drained
  /\ UNCHANGED given

NextDrain ==
  \/ \E element \in HeapValues : DrainAdd(element)
  \/ DrainPoll

SpecDrain == DrainInit /\ [][NextDrain]_vars

\* ----------------------------------------------------------- linked lists
\* A list object is its fields and the node objects they lead to.  What a
\* method gives is [ok, list, ret]: ok is FALSE when it throws RangeError,
\* list is the list object afterwards, ret the value returned (Undefined
\* for a method that returns nothing, and after a throw).
Result(ok, list, ret) == [ok |-> ok, list |-> list, ret |-> ret]

\* The id a freshly constructed list node gets.
FreshNode(h) == IF DOMAIN h = {} THEN 1
                ELSE 1 + CHOOSE n \in DOMAIN h : \A m \in DOMAIN h : m <= n

\* ------------------------------------------------------ SinglyLinkedList
SinglyLinkedNode(v, n) == [value |-> v, next |-> n]

\* new SinglyLinkedList()
SinglyLinkedList == [nodes |-> <<>>, head |-> NULL, size |-> 0]

RECURSIVE SinglyPeekNodeLoop(_, _, _, _)
SinglyPeekNodeLoop(h, node, pointer, index) ==
  IF pointer < index
    THEN LET nx == IF node = NULL THEN NULL ELSE h[node].next
         IN IF nx = NULL THEN NULL
            ELSE SinglyPeekNodeLoop(h, nx, pointer + 1, index)
    ELSE node

SinglyPeekNodeAt(l, index) ==
  IF index < 0 THEN NULL ELSE SinglyPeekNodeLoop(l.nodes, l.head, 0, index)

SinglyRemoveNode(l, toRemove, previous) ==
  Result(TRUE,
         [nodes |-> IF previous = NULL THEN l.nodes
                    ELSE [l.nodes EXCEPT ![previous].next = l.nodes[toRemove].next],
          head |-> IF previous = NULL THEN l.nodes[toRemove].next ELSE l.head,
          size |-> l.size - 1],
         l.nodes[toRemove].value)

SinglyClear(l) == Result(TRUE, [l EXCEPT !.head = NULL, !.size = 0], Undefined)

SinglyAddFirst(l, item) ==
  LET n == FreshNode(l.nodes) IN
  Result(TRUE,
         [nodes |-> Store(l.nodes, n, SinglyLinkedNode(item, l.head)),
          head |-> n, size |-> l.size + 1],
         Undefined)

SinglyAddLast(l, item) ==
  IF l.size = 0 THEN SinglyAddFirst(l, item)
  ELSE LET lastNode == SinglyPeekNodeAt(l, l.size - 1)
           n == FreshNode(l.nodes)
           h == Store(l.nodes, n, SinglyLinkedNode(item, NULL))
       IN Result(TRUE,
                 [nodes |-> IF lastNode # NULL
                              THEN [h EXCEPT ![lastNode].next = n] ELSE h,
                  head |-> IF lastNode # NULL THEN l.head ELSE n,
                  size |-> l.size + 1],
                 Undefined)

SinglyAdd(l, item) == SinglyAddLast(l, item)

SinglyAddAt(l, item, index) ==
  IF index = 0 THEN SinglyAddFirst(l, item)
  ELSE LET nodeBefore == SinglyPeekNodeAt(l, index - 1)
           n == FreshNode(l.nodes)
       IN IF nodeBefore = NULL THEN Result(FALSE, l, Undefined)
          ELSE Result(TRUE,
                      [nodes |-> [Store(l.nodes, n,
                                        SinglyLinkedNode(item, l.nodes[nodeBefore].next))
                                    EXCEPT ![nodeBefore].next = n],
                       head |-> l.head, size |-> l.size + 1],
                      Undefined)

SinglyPeekAt(l, index) ==
  LET node == SinglyPeekNodeAt(l, index) IN
  IF node = NULL THEN Result(FALSE, l, Undefined)
  ELSE Result(TRUE, l, l.nodes[node].value)

SinglyPeekFirst(l) == SinglyPeekAt(l, 0)

SinglyPeekLast(l) == SinglyPeekAt(l, l.size - 1)

\* The while loop of removeAt: previous and current when it ends.
RECURSIVE SinglyRemoveAtLoop(_, _, _, _, _)
SinglyRemoveAtLoop(h, previous, current, pointer, index) ==
  IF current # NULL /\ pointer < index
    THEN SinglyRemoveAtLoop(h, current, h[current].next, pointer + 1, index)
    ELSE [previous |-> previous, current |-> current]

SinglyRemoveAt(l, index) ==
  LET at == SinglyRemoveAtLoop(l.nodes, NULL, l.head, 0, index) IN
  IF at.current = NULL THEN Result(FALSE, l, Undefined)
  ELSE SinglyRemoveNode(l, at.current, at.previous)

SinglyRemoveFirst(l) ==
  IF l.head = NULL THEN Result(FALSE, l, Undefined)
  ELSE SinglyRemoveNode(l, l.head, NULL)

SinglyRemoveLast(l) == SinglyRemoveAt(l, l.size - 1)

\* The while loop of remove: previous and current at the first node that
\* holds the element (current is NULL when none does).
RECURSIVE SinglyRemoveLoop(_, _, _, _)
SinglyRemoveLoop(h, previous, current, toRemove) ==
  IF current # NULL /\ h[current].value # toRemove
    THEN SinglyRemoveLoop(h, current, h[current].next, toRemove)
    ELSE [previous |-> previous, current |-> current]

SinglyRemove(l, toRemove) ==
  LET at == SinglyRemoveLoop(l.nodes, NULL, l.head, toRemove) IN
  IF at.current = NULL THEN Result(FALSE, l, Undefined)
  ELSE SinglyRemoveNode(l, at.current, at.previous)

\* [Symbol.iterator]: the values from node on (at most fuel of them).
RECURSIVE SinglyValuesFrom(_, _, _)
SinglyValuesFrom(h, node, fuel) ==
  IF node = NULL \/ fuel = 0 THEN <<>>
  ELSE <<h[node].value>> \o SinglyValuesFrom(h, h[node].next, fuel - 1)

\* [...list]
SinglyValues(l) ==
  SinglyValuesFrom(l.nodes, l.head, Cardinality(DOMAIN l.nodes) + 1)

SinglyContains(l, item) ==
  \E i \in 1..Len(SinglyValues(l)) : SinglyValues(l)[i] = item

\* The nodes reachable from node, in the order met.
RECURSIVE SinglyVisit(_, _, _)
SinglyVisit(h, node, seen) ==
  IF node = NULL \/ \E i \in 1..Len(seen) : seen[i] = node THEN seen
  ELSE SinglyVisit(h, h[node].next, Append(seen, node))

\* The list with unreachable nodes dropped and the others named 1, 2, ...
\* in the order they are met from the head.
SinglyCollect(l) ==
  LET order == SinglyVisit(l.nodes, l.head, <<>>)
      name(n) == IF n = NULL THEN NULL
                 ELSE CHOOSE i \in 1..Len(order) : order[i] = n
  IN [nodes |-> [i \in 1..Len(order) |->
                   SinglyLinkedNode(l.nodes[order[i]].value,
                                    name(l.nodes[order[i]].next))],
      head |-> name(l.head),
      size |-> l.size]

\* ------------------------------------------------------ DoublyLinkedList
DoublyLinkedNode(v, n, p) == [value |-> v, next |-> n, previous |-> p]

\* new DoublyLinkedList()
DoublyLinkedList == [nodes |-> <<>>, head |-> NULL, tail |-> NULL, size |-> 0]

RECURSIVE DoublyPeekNodeLoop(_, _, _, _)
DoublyPeekNodeLoop(h, node, pointer, index) ==
  IF pointer < index
    THEN LET nx == IF node = NULL THEN NULL ELSE h[node].next
         IN IF nx = NULL THEN NULL
            ELSE DoublyPeekNodeLoop(h, nx, pointer + 1, index)
    ELSE node

DoublyPeekNodeAt(l, index) ==
  IF index < 0 THEN NULL ELSE DoublyPeekNodeLoop(l.nodes, l.head, 0, index)

\* Mutant of DoublyRemoveNode: the node after the removed one keeps its
\* previous link.
DoublyRemoveNodeForward(l, toRemove) ==
  LET r == l.nodes[toRemove]
      h1 == IF r.previous # NULL
              THEN [l.nodes EXCEPT ![r.previous].next = r.next] ELSE l.nodes
  IN Result(TRUE,
            [nodes |-> h1,
             head |-> IF r.previous # NULL THEN l.head ELSE r.next,
             tail |-> IF r.next # NULL THEN l.tail ELSE r.previous,
             size |-> l.size - 1],
            r.value)

DoublyRemoveNode(l, toRemove) ==
  LET r == l.nodes[toRemove]
      h1 == IF r.previous # NULL
              THEN [l.nodes EXCEPT ![r.previous].next = r.next] ELSE l.nodes
      h2 == IF r.next # NULL
              THEN [h1 EXCEPT ![r.next].previous = r.previous] ELSE h1
  IN Result(TRUE,
            [nodes |-> h2,
             head |-> IF r.previous # NULL THEN l.head ELSE r.next,
             tail |-> IF r.next # NULL THEN l.tail ELSE r.previous,
             size |-> l.size - 1],
            r.value)

DoublyClear(l) ==
  Result(TRUE, [l EXCEPT !.head = NULL, !.tail = NULL, !.size = 0], Undefined)

DoublyAddLast(l, item) ==
  LET n == FreshNode(l.nodes) IN
  IF l.size = 0 \/ l.tail = NULL
    THEN Result(TRUE,
                [nodes |-> Store(l.nodes, n, DoublyLinkedNode(item, NULL, NULL)),
                 head |-> n, tail |-> n, size |-> l.size + 1],
                Undefined)
    ELSE Result(TRUE,
                [nodes |-> [Store(l.nodes, n, DoublyLinkedNode(item, NULL, l.tail))
                              EXCEPT ![l.tail].next = n],
                 head |-> l.head, tail |-> n, size |-> l.size + 1],
                Undefined)

DoublyAdd(l, item) == DoublyAddLast(l, item)

DoublyAddFirst(l, item) ==
  LET n == FreshNode(l.nodes) IN
  IF l.size = 0 \/ l.head = NULL
    THEN Result(TRUE,
                [nodes |-> Store(l.nodes, n, DoublyLinkedNode(item, NULL, NULL)),
                 head |-> n, tail |-> n, size |-> l.size + 1],
                Undefined)
    ELSE Result(TRUE,
                [nodes |-> [Store(l.nodes, n, DoublyLinkedNode(item, l.head, NULL))
                              EXCEPT ![l.head].previous = n],
                 head |-> n, tail |-> l.tail, size |-> l.size + 1],
                Undefined)

\* Mutant of DoublyAddAt: the node before the new one is not linked to it.
DoublyAddAtUnlinked(l, item, index) ==
  IF index = 0 THEN DoublyAddFirst(l, item)
  ELSE LET previousNode == DoublyPeekNodeAt(l, index - 1) IN
       IF previousNode = NULL THEN Result(FALSE, l, Undefined)
       ELSE LET currentNode == l.nodes[previousNode].next
                newNode == FreshNode(l.nodes)
            IN IF currentNode = NULL THEN DoublyAddLast(l, item)
               ELSE LET before == l.nodes[currentNode].previous
                        h1 == Store(l.nodes, newNode,
                                    DoublyLinkedNode(item, currentNode, before))
                        h2 == [h1 EXCEPT ![currentNode].previous = newNode]
                    IN Result(TRUE,
                              [nodes |-> h2, head |-> l.head, tail |-> l.tail,
                               size |-> l.size + 1],
                              Undefined)

DoublyAddAt(l, item, index) ==
  IF index = 0 THEN DoublyAddFirst(l, item)
  ELSE LET previousNode == DoublyPeekNodeAt(l, index - 1) IN
       IF previousNode = NULL THEN Result(FALSE, l, Undefined)
       ELSE LET currentNode == l.nodes[previousNode].next
                newNode == FreshNode(l.nodes)
            IN IF currentNode = NULL THEN DoublyAddLast(l, item)
               ELSE LET before == l.nodes[currentNode].previous
                        h1 == Store(l.nodes, newNode,
                                    DoublyLinkedNode(item, currentNode, before))
                        h2 == [h1 EXCEPT ![currentNode].previous = newNode]
                        h3 == IF before # NULL
                                THEN [h2 EXCEPT ![before].next = newNode] ELSE h2
                    IN Result(TRUE,
                              [nodes |-> h3, head |-> l.head, tail |-> l.tail,
                               size |-> l.size + 1],
                              Undefined)

DoublyPeekFirst(l) ==
  IF l.head = NULL THEN Result(FALSE, l, Undefined)
  ELSE Result(TRUE, l, l.nodes[l.head].value)

DoublyPeekLast(l) ==
  IF l.tail = NULL THEN Result(FALSE, l, Undefined)
  ELSE Result(TRUE, l, l.nodes[l.tail].value)

DoublyPeekAt(l, index) ==
  LET node == DoublyPeekNodeAt(l, index) IN
  IF node = NULL THEN Result(FALSE, l, Undefined)
  ELSE Result(TRUE, l, l.nodes[node].value)

DoublyRemoveFirst(l) ==
  IF l.head = NULL THEN Result(FALSE, l, Undefined)
  ELSE DoublyRemoveNode(l, l.head)

DoublyRemoveLast(l) ==
  IF l.tail = NULL THEN Result(FALSE, l, Undefined)
  ELSE DoublyRemoveNode(l, l.tail)

DoublyRemoveAt(l, index) ==
  LET toRemove == DoublyPeekNodeAt(l, index) IN
  IF toRemove = NULL THEN Result(FALSE, l, Undefined)
  ELSE DoublyRemoveNode(l, toRemove)

\* The while loop of remove: the first node from node on that holds the
\* element (NULL when none does).
RECURSIVE DoublyRemoveLoop(_, _, _)
DoublyRemoveLoop(h, node, element) ==
  IF node # NULL /\ h[node].value # element
    THEN DoublyRemoveLoop(h, h[node].next, element)
    ELSE node

DoublyRemove(l, element) ==
  LET node == DoublyRemoveLoop(l.nodes, l.head, element) IN
  IF node = NULL THEN Result(FALSE, l, Undefined)
  ELSE DoublyRemoveNode(l, node)

\* [Symbol.iterator]: the values from node on (at most fuel of them).
RECURSIVE DoublyValuesFrom(_, _, _)
DoublyValuesFrom(h, node, fuel) ==
  IF node = NULL \/ fuel = 0 THEN <<>>
  ELSE <<h[node].value>> \o DoublyValuesFrom(h, h[node].next, fuel - 1)

\* [...list]
DoublyValues(l) ==
  DoublyValuesFrom(l.nodes, l.head, Cardinality(DOMAIN l.nodes) + 1)

DoublyContains(l, item) ==
  \E i \in 1..Len(DoublyValues(l)) : DoublyValues(l)[i] = item

\* The nodes reachable from node over next and previous, in the order met.
RECURSIVE DoublyVisit(_, _, _)
DoublyVisit(h, node, seen) ==
  IF node = NULL \/ \E i \in 1..Len(seen) : seen[i] = node THEN seen
  ELSE DoublyVisit(h, h[node].previous,
                   DoublyVisit(h, h[node].next, Append(seen, node)))

\* The list with unreachable nodes dropped and the others named 1, 2, ...
\* in the order they are met from the head, then from the tail.
DoublyCollect(l) ==
  LET order == DoublyVisit(l.nodes, l.tail, DoublyVisit(l.nodes, l.head, <<>>))
      name(n) == IF n = NULL THEN NULL
                 ELSE CHOOSE i \in 1..Len(order) : order[i] = n
  IN [nodes |-> [i \in 1..Len(order) |->
                   DoublyLinkedNode(l.nodes[order[i]].value,
                                    name(l.nodes[order[i]].next),
                                    name(l.nodes[order[i]].previous))],
      head |-> name(l.head),
      tail |-> name(l.tail),
      size |-> l.size]

\* ------------------------------------------- both lists, the same calls
ListValues == 0..MaxListVal

\* The indexes handed to addAt, peekAt and removeAt: from one before the
\* first place to one after the place past the longest list.
ListIndexes == (0 - 1)..(MaxListLen + 1)

\* The call op(item, index) made on both lists, rs and rd what each gave.
OnBoth(op, item, index, rs, rd) ==
  /\ sll' = SinglyCollect(rs.list)
  /\ dll' = DoublyCollect(rd.list)
  /\ llast' = [op |-> op, item |-> item, index |-> index,
               singly |-> [ok |-> rs.ok, ret |-> rs.ret],
               doubly |-> [ok |-> rd.ok, ret |-> rd.ret]]
  /\ UNCHANGED <<treeVars, iters, heapVars, boxVars>>

\* Neither list is at the length the run is bounded by.
RoomLeft == sll.size < MaxListLen /\ dll.size < MaxListLen

ListAdd(item) ==
  RoomLeft /\ OnBoth("add", item, 0, SinglyAdd(sll, item), DoublyAdd(dll, item))

ListAddFirst(item) ==
  RoomLeft /\ OnBoth("addFirst", item, 0,
                     SinglyAddFirst(sll, item), DoublyAddFirst(dll, item))

ListAddLast(item) ==
  RoomLeft /\ OnBoth("addLast", item, 0,
                     SinglyAddLast(sll, item), DoublyAddLast(dll, item))

ListAddAt(item, index) ==
  RoomLeft /\ OnBoth("addAt", item, index,
                     SinglyAddAt(sll, item, index), DoublyAddAt(dll, item, index))

ListRemoveFirst ==
  \E rs \in {SinglyRemoveFirst(sll)}, rd \in {DoublyRemoveFirst(dll)} :
    OnBoth("removeFirst", 0, 0, rs, rd)

ListRemoveLast ==
  \E rs \in {SinglyRemoveLast(sll)}, rd \in {DoublyRemoveLast(dll)} :
    OnBoth("removeLast", 0, 0, rs, rd)

ListRemoveAt(index) ==
  \E rs \in {SinglyRemoveAt(sll, index)}, rd \in {DoublyRemoveAt(dll, index)} :
    OnBoth("removeAt", 0, index, rs, rd)

ListRemove(item) ==
  \E rs \in {SinglyRemove(sll, item)}, rd \in {DoublyRemove(dll, item)} :
    OnBoth("remove", item, 0, rs, rd)

ListClear ==
  \E rs \in {SinglyClear(sll)}, rd \in {DoublyClear(dll)} :
    OnBoth("clear", 0, 0, rs, rd)

ListPeekFirst ==
  \E rs \in {SinglyPeekFirst(sll)}, rd \in {DoublyPeekFirst(dll)} :
    OnBoth("peekFirst", 0, 0, rs, rd)

ListPeekLast ==
  \E rs \in {SinglyPeekLast(sll)}, rd \in {DoublyPeekLast(dll)} :
    OnBoth("peekLast", 0, 0, rs, rd)

ListPeekAt(index) ==
  \E rs \in {SinglyPeekAt(sll, index)}, rd \in {DoublyPeekAt(dll, index)} :
    OnBoth("peekAt", 0, index, rs, rd)

NextLists ==
  \/ \E item \in ListValues : ListAdd(item)
  \/ \E item \in ListValues : ListAddFirst(item)
  \/ \E item \in ListValues : ListAddLast(item)
  \/ \E item \in ListValues, index \in ListIndexes : ListAddAt(item, index)
  \/ ListRemoveFirst
  \/ ListRemoveLast
  \/ \E index \in ListIndexes : ListRemoveAt(index)
  \/ \E item \in ListValues : ListRemove(item)
  \/ ListClear
  \/ ListPeekFirst
  \/ ListPeekLast
  \/ \E index \in ListIndexes : ListPeekAt(index)

SpecLists == Init /\ [][NextLists]_vars

\* ------------------------------------------- one list, either class
\* A run on one list of either class, chosen at construction: the calls are
\* made on the singly linked list when subject is "singly" and on the doubly
\* linked list when it is "doubly"; the other list is left as constructed.
OneListInit ==
  /\ nodes = <<>> /\ root = NULL /\ size = 0 /\ present = {} /\ removes = 0
  /\ last = Call("new", 0, TRUE, <<>>)
  /\ iters = [i \in 1..2 |-> NoIterator]
  /\ HeapEmptyInit
  /\ ListsInit
  /\ subject \in {"singly", "doubly"}
  /\ theStack = [list |-> [nodes |-> <<>>, head |-> NULL, tail |-> NULL, size |-> 0]]
  /\ theQueue = [list |-> [nodes |-> <<>>, head |-> NULL, tail |-> NULL, size |-> 0]]
  /\ clast = Call("new", <<>>, TRUE, <<>>)
  /\ inside = <<>>

\* The call op(item, index) made on the list the run is about; rs is what the
\* singly linked list gives for it and rd what the doubly linked list gives.
OnOne(op, item, index, rs, rd) ==
  /\ IF subject = "singly"
       THEN /\ sll' = SinglyCollect(rs.list)
            /\ llast' = [op |-> op, item |-> item, index |-> index,
                         singly |-> [ok |-> rs.ok, ret |-> rs.ret],
                         doubly |-> [ok |-> TRUE, ret |-> 0]]
            /\ UNCHANGED dll
       ELSE /\ dll' = DoublyCollect(rd.list)
            /\ llast' = [op |-> op, item |-> item, index |-> index,
                         singly |-> [ok |-> TRUE, ret |-> 0],
                         doubly |-> [ok |-> rd.ok, ret |-> rd.ret]]
            /\ UNCHANGED sll
  /\ UNCHANGED <<treeVars, iters, heapVars, boxVars>>

OneAdd(item) ==
  RoomLeft /\ OnOne("add", item, 0,
        SinglyAdd(sll, item), DoublyAdd(dll, item))

OneAddFirst(item) ==
  RoomLeft /\ OnOne("addFirst", item, 0,
        SinglyAddFirst(sll, item), DoublyAddFirst(dll, item))

OneAddLast(item) ==
  RoomLeft /\ OnOne("addLast", item, 0,
        SinglyAddLast(sll, item), DoublyAddLast(dll, item))

OneAddAt(item, index) ==
  RoomLeft /\ OnOne("addAt", item, index,
        SinglyAddAt(sll, item, index), DoublyAddAt(dll, item, index))

OneRemoveFirst ==
  OnOne("removeFirst", 0, 0,
        SinglyRemoveFirst(sll), DoublyRemoveFirst(dll))

OneRemoveLast ==
  OnOne("removeLast", 0, 0,
        SinglyRemoveLast(sll), DoublyRemoveLast(dll))

OneRemoveAt(index) ==
  OnOne("removeAt", 0, index,
        SinglyRemoveAt(sll, index), DoublyRemoveAt(dll, index))

OneRemove(item) ==
  OnOne("remove", item, 0,
        SinglyRemove(sll, item), DoublyRemove(dll, item))

OneClear ==
  OnOne("clear", 0, 0,
        SinglyClear(sll), DoublyClear(dll))

OnePeekFirst ==
  OnOne("peekFirst", 0, 0,
        SinglyPeekFirst(sll), DoublyPeekFirst(dll))

OnePeekLast ==
  OnOne("peekLast", 0, 0,
        SinglyPeekLast(sll), DoublyPeekLast(dll))

OnePeekAt(index) ==
  OnOne("peekAt", 0, index,
        SinglyPeekAt(sll, index), DoublyPeekAt(dll, index))

NextOneList ==
  \/ \E item \in ListValues : OneAdd(item)
  \/ \E item \in ListValues : OneAddFirst(item)
  \/ \E item \in ListValues : OneAddLast(item)
  \/ \E item \in ListValues, index \in ListIndexes : OneAddAt(item, index)
  \/ OneRemoveFirst
  \/ OneRemoveLast
  \/ \E index \in ListIndexes : OneRemoveAt(index)
  \/ \E item \in ListValues : OneRemove(item)
  \/ OneClear
  \/ OnePeekFirst
  \/ OnePeekLast
  \/ \E index \in ListIndexes : OnePeekAt(index)

SpecOneList == OneListInit /\ [][NextOneList]_vars

\* ------------------------------------------------------ Stack and Queue
\* The Stack and the Queue as the code has them: each owns a
\* DoublyLinkedList and hands its calls on to it.
BoxValues == 0..MaxBoxVal

\* if (value): the value is neither undefined nor 0.
Truthy(v) == v # Undefined /\ v # 0

\* stack.size and stack.isEmpty
Stack_size(st) == st.list.size
Stack_isEmpty(st) == Stack_size(st) = 0

\* queue.size and queue.isEmpty
Queue_size(q) == q.list.size
Queue_isEmpty(q) == Queue_size(q) = 0

\* Mutant of Stack_push: the element is put at the front of the list.
Stack_pushFirst(st, element) ==
  Result(TRUE, [list |-> DoublyAddFirst(st.list, element).list], Undefined)

\* stack.push(element)
Stack_push(st, element) ==
  Result(TRUE, [list |-> DoublyAddLast(st.list, element).list], Undefined)

\* new Stack(initialEl); initialEl is Undefined when none is passed
Stack_new(initialEl) ==
  IF Truthy(initialEl)
    THEN Stack_push([list |-> DoublyLinkedList], initialEl).list
    ELSE [list |-> DoublyLinkedList]

\* stack.pop()
Stack_pop(st) ==
  IF Stack_size(st) = 0 THEN Result(FALSE, st, Undefined)
  ELSE LET r == DoublyRemoveLast(st.list)
       IN Result(r.ok, [list |-> r.list], r.ret)

\* stack.clear()
Stack_clear(st) == Result(TRUE, [list |-> DoublyClear(st.list).list], Undefined)

\* Mutant of Stack_peek: no check for the empty stack, undefined handed back.
Stack_peekUnchecked(st) ==
  IF st.list.size = 0 THEN Result(TRUE, st, Undefined)
  ELSE Result(TRUE, st, DoublyPeekLast(st.list).ret)

\* stack.peek()
Stack_peek(st) ==
  IF Stack_size(st) = 0 THEN Result(FALSE, st, Undefined)
  ELSE LET r == DoublyPeekLast(st.list) IN Result(r.ok, st, r.ret)

\* queue.enqueue(element)
Queue_enqueue(q, element) ==
  Result(TRUE, [list |-> DoublyAddLast(q.list, element).list], Undefined)

\* new Queue(...items)
RECURSIVE Queue_new(_)
Queue_new(its) ==
  IF its = <<>> THEN [list |-> DoublyLinkedList]
  ELSE Queue_enqueue(Queue_new(Front(its)), Last(its)).list

\* Mutant of Queue_dequeue: the element at the back is taken.
Queue_dequeueLast(q) ==
  IF q.list.size = 0 THEN Result(FALSE, q, Undefined)
  ELSE LET r == DoublyRemoveLast(q.list)
       IN Result(r.ok, [list |-> r.list], r.ret)

\* queue.dequeue()
Queue_dequeue(q) ==
  IF Queue_isEmpty(q) THEN Result(FALSE, q, Undefined)
  ELSE LET r == DoublyRemoveFirst(q.list)
       IN Result(r.ok, [list |-> r.list], r.ret)

\* queue.clear()
Queue_clear(q) == Result(TRUE, [list |-> DoublyClear(q.list).list], Undefined)

\* queue.peek()
Queue_peek(q) ==
  IF Queue_isEmpty(q) THEN Result(FALSE, q, Undefined)
  ELSE LET r == DoublyPeekFirst(q.list) IN Result(r.ok, q, r.ret)

\* The container after a call: its list with the nodes renamed.
Boxed(b) == [list |-> DoublyCollect(b.list)]

\* The arrays a queue is constructed from.
BoxArrays == UNION {[1..n -> BoxValues] : n \in 0..MaxBox}

\* new Stack(initialEl) with any element or none, or new Queue(...items)
\* with any array
BoxInit ==
  /\ nodes = <<>> /\ root = NULL /\ size = 0 /\ present = {} /\ removes = 0
  /\ last = Call("new", 0, TRUE, <<>>)
  /\ iters = [i \in 1..2 |-> NoIterator]
  /\ HeapEmptyInit
  /\ ListsInit
  /\ \/ \E initialEl \in BoxValues \cup {Undefined} :
          /\ subject = "stack"
          /\ theStack = Boxed(Stack_new(initialEl))
          /\ theQueue = Boxed(Queue_new(<<>>))
          /\ clast = Call("new", initialEl, TRUE, <<>>)
          /\ inside = IF Truthy(initialEl) THEN <<initialEl>> ELSE <<>>
     \/ \E its \in BoxArrays :
          /\ subject = "queue"
          /\ theStack = Boxed(Stack_new(Undefined))
          /\ theQueue = Boxed(Queue_new(its))
          /\ clast = Call("new", its, TRUE, <<>>)
          /\ inside = its

\* What a call leaves alone besides the container it is made on.
BoxFrame == UNCHANGED <<subject, treeVars, iters, heapVars, listVars>>

Push(element) ==
  /\ subject = "stack"
  /\ theStack.list.size < MaxBox
  /\ \E res \in {Stack_push(theStack, element)} :
       /\ theStack' = Boxed(res.list)
       /\ clast' = Call("push", element, res.ok, <<>>)
  /\ inside' = Append(inside, element)
  /\ UNCHANGED theQueue /\ BoxFrame

Pop ==
  /\ subject = "stack"
  /\ \E res \in {Stack_pop(theStack)} :
       /\ theStack' = Boxed(res.list)
       /\ clast' = Call("pop", Undefined, res.ok, IF res.ok THEN <<res.ret>> ELSE <<>>)
       /\ inside' = IF res.ok THEN Front(inside) ELSE inside
  /\ UNCHANGED theQueue /\ BoxFrame

StackPeek ==
  /\ subject = "stack"
  /\ \E res \in {Stack_peek(theStack)} :
       /\ theStack' = Boxed(res.list)
       /\ clast' = Call("peek", Undefined, res.ok, IF res.ok THEN <<res.ret>> ELSE <<>>)
  /\ UNCHANGED <<theQueue, inside>> /\ BoxFrame

StackClear ==
  /\ subject = "stack"
  /\ \E res \in {Stack_clear(theStack)} :
       /\ theStack' = Boxed(res.list)
       /\ clast' = Call("clear", Undefined, res.ok, <<>>)
  /\ inside' = <<>>
  /\ UNCHANGED theQueue /\ BoxFrame

Enqueue(element) ==
  /\ subject = "queue"
  /\ theQueue.list.size < MaxBox
  /\ \E res \in {Queue_enqueue(theQueue, element)} :
       /\ theQueue' = Boxed(res.list)
       /\ clast' = Call("enqueue", element, res.ok, <<>>)
  /\ inside' = Append(inside, element)
  /\ UNCHANGED theStack /\ BoxFrame

Dequeue ==
  /\ subject = "queue"
  /\ \E res \in {Queue_dequeue(theQueue)} :
       /\ theQueue' = Boxed(res.list)
       /\ clast' = Call("dequeue", Undefined, res.ok, IF res.ok THEN <<res.ret>> ELSE <<>>)
       /\ inside' = IF res.ok THEN Tail(inside) ELSE inside
  /\ UNCHANGED theStack /\ BoxFrame

QueuePeek ==
  /\ subject = "queue"
  /\ \E res \in {Queue_peek(theQueue)} :
       /\ theQueue' = Boxed(res.list)
       /\ clast' = Call("peek", Undefined, res.ok, IF res.ok THEN <<res.ret>> ELSE <<>>)
  /\ UNCHANGED <<theStack, inside>> /\ BoxFrame

QueueClear ==
  /\ subject = "queue"
  /\ \E res \in {Queue_clear(theQueue)} :
       /\ theQueue' = Boxed(res.list)
       /\ clast' = Call("clear", Undefined, res.ok, <<>>)
  /\ inside' = <<>>
  /\ UNCHANGED theStack /\ BoxFrame

NextBoxes ==
  \/ \E element \in BoxValues : Push(element)
  \/ Pop
  \/ StackPeek
  \/ StackClear
  \/ \E element \in BoxValues : Enqueue(element)
  \/ Dequeue
  \/ QueuePeek
  \/ QueueClear

SpecBoxes == BoxInit /\ [][NextBoxes]_vars

\* ------------------------------------------------- vocabulary of the claims
Range(s) == {s[i] : i \in 1..Len(s)}

\* The values held by the nodes of the tree.
TreeValues == {nodes[n].value : n \in DOMAIN nodes}

\* The elements of S, each once, in ascending comparator order.
RECURSIVE Ascending(_)
Ascending(S) ==
  IF S = {} THEN <<>>
  ELSE LET m == CHOOSE x \in S : \A y \in S : comparator(x, y) # 1
       IN <<m>> \o Ascending(S \ {m})

\* The nodes of the subtree under n.
SubTree(h, n) == Range(Visit(h, n, <<>>))

\* The step just taken was a successful remove, the first one of the run: the
\* tree it was made on was built by add calls alone.
FirstRemoveDone == last.op = "remove" /\ last.ok /\ removes = 1

\* ------------------------------------------------------------------ claims

\* C1: after remove(x) on a tree built by add calls, a fresh traverseInOrder()
\* yields exactly the remaining elements, each once, in ascending order.
C1_InOrderAfterRemove ==
  FirstRemoveDone => traverseInOrder(nodes, root) = Ascending(present)

\* C2: size equals the number of distinct elements added and not since removed.
C2_SizeCountsPresent == size = Cardinality(present)

\* C3: find(x) is non-null for every element added and not removed, and null
\* right after remove(x) has succeeded.
C3_FindRoundTrip ==
  /\ \A x \in present : find(nodes, root, x) # NULL
  /\ (last.op = "remove" /\ last.ok) => find(nodes, root, last.arg) = NULL

\* C4: for every node N, every value in N's left subtree compares <= N.value
\* and every value in N's right subtree compares >= N.value.
C4_Ordering ==
  \A n \in DOMAIN nodes :
    /\ \A m \in SubTree(nodes, nodes[n].left) :
         comparator(nodes[m].value, nodes[n].value) # 1
    /\ \A m \in SubTree(nodes, nodes[n].right) :
         comparator(nodes[m].value, nodes[n].value) # -1

\* C5: a successful remove(x) returns x, and every other element that was in
\* the tree is still found by find and still yielded by all four traversals.
C5_RemoveFrame ==
  [][ removes' = removes + 1 =>
        /\ last'.out = <<last'.arg>>
        /\ \A y \in TreeValues \ {last'.arg} :
             /\ find(nodes', root', y) # NULL
             /\ y \in Range(traversePreOrder(nodes', root'))
             /\ y \in Range(traverseInOrder(nodes', root'))
             /\ y \in Range(traversePostOrder(nodes', root'))
             /\ y \in Range(traverseLevelOrder(nodes', root')) ]_vars


\* C6: after add calls alone (any order, duplicates allowed) traverseInOrder()
\* yields every distinct inserted value exactly once, in ascending order.
C6_InOrderSorted ==
  removes = 0 => traverseInOrder(nodes, root) = Ascending(present)

C6_Witness ==
  /\ removes = 0
  /\ last.op = "traverseInOrder"
  /\ last.out = <<1, 2, 3, 4, 5>>
  /\ nodes[root].left # NULL /\ nodes[root].right # NULL

\* C7: remove(x) throws RangeError when the tree is empty or holds no x, and a
\* remove that throws leaves size, the root, the nodes and every traversal as
\* they were; find(x) of an absent x returns null.
C7_RemoveNotFound ==
  /\ [](\A x \in Values \ TreeValues : find(nodes, root, x) = NULL)
  /\ [][ last'.op = "remove" =>
           /\ (root = NULL \/ last'.arg \notin TreeValues) => ~last'.ok
           /\ ~last'.ok =>
                /\ size' = size /\ root' = root /\ nodes' = nodes
                /\ traversePreOrder(nodes', root') = traversePreOrder(nodes, root)
                /\ traverseInOrder(nodes', root') = traverseInOrder(nodes, root)
                /\ traversePostOrder(nodes', root') = traversePostOrder(nodes, root)
                /\ traverseLevelOrder(nodes', root') = traverseLevelOrder(nodes, root)
     ]_vars

C7_Witness ==
  /\ last.op = "remove" /\ ~last.ok
  /\ size >= 3
  /\ last.arg \notin TreeValues

\* C8: add(x) when a node comparing equal to x is in the tree does not throw and
\* leaves size, the nodes and their links and all four traversals unchanged.
C8_AddExisting ==
  [][ (last'.op = "add" /\ last'.arg \in TreeValues) =>
        /\ last'.ok
        /\ size' = size /\ root' = root /\ nodes' = nodes
        /\ traversePreOrder(nodes', root') = traversePreOrder(nodes, root)
        /\ traverseInOrder(nodes', root') = traverseInOrder(nodes, root)
        /\ traversePostOrder(nodes', root') = traversePostOrder(nodes, root)
        /\ traverseLevelOrder(nodes', root') = traverseLevelOrder(nodes, root)
     ]_vars

\* The recursive definition of pre-order: node, left subtree, right subtree.
RECURSIVE PreOrderRec(_, _)
PreOrderRec(h, n) ==
  IF n = NULL THEN <<>>
  ELSE <<h[n].value>> \o PreOrderRec(h, h[n].left) \o PreOrderRec(h, h[n].right)

\* C9: on a tree built by add calls traversePreOrder() yields the values in the
\* order node, then left subtree, then right subtree.
C9_PreOrder ==
  removes = 0 => traversePreOrder(nodes, root) = PreOrderRec(nodes, root)

C9_Witness ==
  /\ removes = 0
  /\ last.op = "traversePreOrder"
  /\ last.out = <<3, 1, 2, 5, 4>>

\* The recursive definition of post-order: left subtree, right subtree, node.
RECURSIVE PostOrderRec(_, _)
PostOrderRec(h, n) ==
  IF n = NULL THEN <<>>
  ELSE PostOrderRec(h, h[n].left) \o PostOrderRec(h, h[n].right) \o <<h[n].value>>

\* C10: on a tree built by add calls traversePostOrder() yields the values in
\* the order left subtree, then right subtree, then node.
C10_PostOrder ==
  removes = 0 => traversePostOrder(nodes, root) = PostOrderRec(nodes, root)

C10_Witness ==
  /\ removes = 0
  /\ last.op = "traversePostOrder"
  /\ last.out = <<2, 1, 4, 5, 3>>


\* The values of the nodes at depth d under n, from left to right.
RECURSIVE AtDepth(_, _, _)
AtDepth(h, n, d) ==
  IF n = NULL THEN <<>>
  ELSE IF d = 0 THEN <<h[n].value>>
  ELSE AtDepth(h, h[n].left, d - 1) \o AtDepth(h, h[n].right, d - 1)

\* Breadth first: depth d, then depth d + 1, ... as long as there are nodes.
RECURSIVE BreadthFirstFrom(_, _, _)
BreadthFirstFrom(h, n, d) ==
  IF AtDepth(h, n, d) = <<>> THEN <<>>
  ELSE AtDepth(h, n, d) \o BreadthFirstFrom(h, n, d + 1)

\* C11: on a tree built by add calls traverseLevelOrder() yields all nodes of
\* depth d before any node of depth d + 1, each depth from left to right.
C11_LevelOrder ==
  removes = 0 => traverseLevelOrder(nodes, root) = BreadthFirstFrom(nodes, root, 0)

C11_Witness ==
  /\ removes = 0
  /\ last.op = "traverseLevelOrder"
  /\ last.out = <<3, 1, 5, 2, 4>>


\* [...tree.traverseX()] for the kind of traversal named.
Alone(kind) ==
  CASE kind = "traversePreOrder" -> traversePreOrder(nodes, root)
    [] kind = "traverseInOrder" -> traverseInOrder(nodes, root)
    [] kind = "traversePostOrder" -> traversePostOrder(nodes, root)
    [] kind = "traverseLevelOrder" -> traverseLevelOrder(nodes, root)

\* What iterator object o has yielded is the start of what an iterator of its
\* kind yields alone, and all of it once it has answered done.
YieldsAsAlone(o) ==
  /\ Len(o.out) <= Len(Alone(o.kind))
  /\ o.out = SubSeq(Alone(o.kind), 1, Len(o.out))
  /\ o.done => o.out = Alone(o.kind)

\* C12: two iterators over the same unmodified tree, their next() calls
\* interleaved in any way, each yield the sequence they yield alone, and
\* asking for an iterator or calling next() leaves the tree as it was.
C12_IteratorsIndependent ==
  /\ [](\A i \in DOMAIN iters : iters[i].kind # "none" => YieldsAsAlone(iters[i]))
  /\ [][iters' # iters => UNCHANGED <<nodes, root, size>>]_vars

C12_Witness ==
  /\ iters[1].kind = "traverseInOrder" /\ iters[1].out = <<1, 2>> /\ ~iters[1].done
  /\ iters[2].kind = "traverseInOrder" /\ iters[2].out = <<1, 2, 3>> /\ iters[2].done


\* The heap property on array hp: no element has lower priority than the
\* element at a child index of its own.
HeapProperty(kind, hp) ==
  \A i \in 1..(Len(hp) - 1) :
    HeapComparator(kind, hp[parentIndexOf(i) + 1], hp[i + 1]) # -1

\* C13: after construction from any array and after every add, poll and
\* remove, comparator(heap[parent(i)], heap[i]) is not -1 for every i > 0.
C13_HeapProperty == HeapProperty(heapKind, heap)

C13_Witness ==
  /\ heapKind = "max"
  /\ hlast = Call("remove", 0, TRUE, <<0>>)
  /\ heap = <<2, 2, 2, 1, 0>>


\* The step is a successful poll().
PollStep == hlast'.op = "poll" /\ hlast'.ok

\* C14: poll() on a non-empty heap returns what peek() returned just before,
\* and no element left in the heap has higher priority than that value.
C14_PollReturnsPeek ==
  [][PollStep =>
       /\ hlast'.out = <<heapPeek(heap)>>
       /\ \A i \in 1..Len(heap') :
            HeapComparator(heapKind, hlast'.out[1], heap'[i]) # -1]_vars

C14_Witness ==
  /\ heapKind = "min"
  /\ hlast = Call("poll", Undefined, TRUE, <<1>>)
  /\ heap = <<1, 2, 2>>

\* C15, as stated: whatever add calls come between them, the result of each
\* poll does not have strictly higher priority than the result of the poll
\* before it.
C15_PollsNonIncreasing ==
  [][PollStep /\ polled # <<>> =>
       HeapComparator(heapKind, polled'[1], polled[1]) # 1]_vars

\* C15, amended: the result of a poll does not have strictly higher priority
\* than the result of the poll before it when no add was called between the
\* two polls.
C15_PollsNonIncreasingWithoutAdd ==
  [][PollStep /\ polled # <<>> /\ ~addedSince =>
       HeapComparator(heapKind, polled'[1], polled[1]) # 1]_vars

C15_Witness ==
  /\ heapKind = "max"
  /\ hlast = Call("poll", Undefined, TRUE, <<1>>)
  /\ polled = <<1>>
  /\ ~addedSince
  /\ heap = <<1, 0, 0>>

\* C18: add never fails and makes the size one more; every successful poll
\* and every successful remove makes it one less; the size is never negative.
C18_SizeConservation ==
  /\ [](Len(heap) >= 0)
  /\ [][/\ hlast'.op = "add" => hlast'.ok /\ Len(heap') = Len(heap) + 1
        /\ hlast'.op \in {"poll", "remove"} /\ hlast'.ok =>
             Len(heap') = Len(heap) - 1]_vars

C18_Witness ==
  /\ hlast = Call("remove", 0, TRUE, <<0>>)
  /\ heap = <<>>
  /\ polled # <<>>

\* C19: peek() on an empty heap fails with an error instead of returning a
\* value.
C19_PeekEmptyFails ==
  hlast.op = "peek" /\ heap = <<>> => ~hlast.ok

\* C20: poll() on an empty heap throws RangeError and leaves the heap empty,
\* and add and poll then do what they do on a freshly constructed heap.
C20_PollEmptyFails ==
  /\ [][hlast'.op = "poll" /\ heap = <<>> => ~hlast'.ok /\ heap' = <<>>]_vars
  /\ [](hlast.op = "poll" /\ ~hlast.ok =>
          /\ heap = BinaryHeap(heapKind, <<>>).heap
          /\ \A e \in HeapValues :
               /\ heapAdd(heapKind, heap, e) = [ok |-> TRUE, heap |-> <<e>>]
               /\ heapPoll(heapKind, heapAdd(heapKind, heap, e).heap)
                    = [ok |-> TRUE, heap |-> <<>>, ret |-> e])

C20_Witness ==
  /\ hlast = Call("poll", Undefined, FALSE, <<>>)
  /\ heap = <<>>
  /\ polled # <<>>


\* Sequence s without its i-th element.
Without(s, i) == SubSeq(s, 1, i - 1) \o SubSeq(s, i + 1, Len(s))

\* The elements of s, each as often as in s, from the highest priority down.
RECURSIVE Descending(_, _)
Descending(kind, s) ==
  IF s = <<>> THEN <<>>
  ELSE LET i == CHOOSE i \in 1..Len(s) :
                  \A j \in 1..Len(s) : HeapComparator(kind, s[i], s[j]) # -1
       IN <<s[i]>> \o Descending(kind, Without(s, i))

\* The polls made so far returned the first elements of sequence all, and
\* the heap holds as many elements as are left of it.
DrainedFrom(all) ==
  /\ Len(drained) + Len(heap) = Len(all)
  /\ drained = SubSeq(all, 1, Len(drained))

\* C16: whatever values are added one by one to an empty heap, duplicates
\* and 0 included, polling until the heap is empty returns exactly those
\* values, each occurrence once, from the highest priority down, and the
\* size is 0 afterwards.
C16_Drain ==
  given.items = <<>> => DrainedFrom(Descending(heapKind, given.added))

C16_Witness ==
  /\ heapKind = "max"
  /\ given = [items |-> <<>>, added |-> <<0, 2, 0, 1>>]
  /\ drained = <<2, 1, 0, 0>>
  /\ heap = <<>>

\* The heap array after the elements of s are added one by one to hp.
RECURSIVE AddAll(_, _, _)
AddAll(kind, hp, s) ==
  IF s = <<>> THEN hp ELSE AddAll(kind, heapAdd(kind, hp, Head(s)).heap, Tail(s))

\* The results of polling hp until it is empty.
RECURSIVE PollAll(_, _)
PollAll(kind, hp) ==
  IF hp = <<>> THEN <<>>
  ELSE LET p == heapPoll(kind, hp) IN <<p.ret>> \o PollAll(kind, p.heap)

\* C17: a heap constructed from an array and polled until empty yields the
\* items from the highest priority down, the same sequence as a heap built
\* by adding those items one by one.
C17_BulkConstruction ==
  given.added = <<>> =>
    /\ DrainedFrom(Descending(heapKind, given.items))
    /\ DrainedFrom(PollAll(heapKind, AddAll(heapKind, <<>>, given.items)))

C17_Witness ==
  /\ heapKind = "min"
  /\ given = [items |-> <<2, 0, 1, 0>>, added |-> <<>>]
  /\ drained = <<0, 0, 1, 2>>
  /\ heap = <<>>


\* C21: remove(x) when no element equal to x is in the heap throws
\* RangeError and leaves the array as it was, and with it the size and the
\* results of the polls that follow, which the array determines.
C21_RemoveAbsent ==
  [][hlast'.op = "remove" /\ ~BagIn(hlast'.arg, held) =>
       /\ ~hlast'.ok
       /\ heap' = heap
       /\ Len(heap') = Len(heap)]_vars

C21_Witness ==
  /\ hlast = Call("remove", 1, FALSE, <<>>)
  /\ heap = <<2, 2, 2, 0, 0, 2>>

\* C22: remove(x) when x is in the heap returns x and takes exactly one
\* occurrence of x away (the array holds the bag held, from which a
\* successful remove(x) takes one x, before the call and after it), and
\* polling until empty then yields the elements left from the highest
\* priority down.
C22_RemovePresent ==
  /\ [][hlast'.op = "remove" /\ BagIn(hlast'.arg, held) =>
          /\ hlast'.ok /\ hlast'.out = <<hlast'.arg>>
          /\ held' = held (-) SetToBag({hlast'.arg})
          /\ Len(heap') = Len(heap) - 1]_vars
  /\ [](BagOfSeq(heap) = held)
  /\ [](hlast.op = "remove" /\ hlast.ok =>
          PollAll(heapKind, heap) = Descending(heapKind, heap))

C22_Witness ==
  /\ heapKind = "max"
  /\ hlast = Call("remove", 1, TRUE, <<1>>)
  /\ heap = <<2, 1, 2, 0, 0>>
  /\ held = BagOfSeq(<<2, 2, 1, 0, 0>>)

\* C23: peek() on a non-empty heap returns the element at the top, which is
\* what a further peek() returns, and leaves the array and the size as they
\* were.
C23_PeekReadOnly ==
  /\ [][hlast'.op = "peek" => heap' = heap]_vars
  /\ [](hlast.op = "peek" /\ heap # <<>> =>
          /\ hlast.ok
          /\ hlast.out = <<heap[1]>>
          /\ hlast.out = <<heapPeek(heap)>>)

C23_Witness ==
  /\ hlast = Call("peek", Undefined, TRUE, <<2>>)
  /\ Len(heap) = 4
  /\ heap[1] = 2

\* C24: contains(x) is true exactly when x was given or added to the heap
\* and not since polled or removed, wherever x sits in the array, and it
\* leaves the heap as it was.
C24_Contains ==
  /\ [][hlast'.op = "contains" => heap' = heap]_vars
  /\ [](hlast.op = "contains" => hlast.out = <<BagIn(hlast.arg, held)>>)

C24_Witness ==
  /\ hlast = Call("contains", 0, TRUE, <<TRUE>>)
  /\ Len(heap) = 6
  /\ heap[6] = 0
  /\ heap[2] # 0
  /\ polled # <<>>


\* C25: the stack holds the elements pushed and not yet popped, in the order
\* of the pushes; pop returns and removes the most recent of them, and peek
\* returns that same element and leaves the stack and its size as they were.
C25_StackLifo ==
  /\ [](subject = "stack" =>
          /\ DoublyValues(theStack.list) = inside
          /\ Stack_size(theStack) = Len(inside))
  /\ [][subject = "stack" /\ inside # <<>> /\ clast'.op = "pop" =>
          /\ clast'.ok
          /\ clast'.out = <<Last(inside)>>
          /\ DoublyValues(theStack'.list) = Front(inside)
          /\ Stack_size(theStack') = Stack_size(theStack) - 1]_vars
  /\ [][subject = "stack" /\ inside # <<>> /\ clast'.op = "peek" =>
          /\ clast'.ok
          /\ clast'.out = <<Last(inside)>>
          /\ theStack' = theStack
          /\ Stack_size(theStack') = Stack_size(theStack)]_vars

C25_Witness ==
  /\ subject = "stack"
  /\ clast.op = "pop" /\ clast.ok /\ clast.out = <<2>>
  /\ inside = <<0, 1>>
  /\ Stack_peek(theStack).ret = 1

\* C26: the queue holds the elements enqueued and not yet dequeued, in the
\* order of the enqueues; dequeue returns and removes the earliest of them,
\* and peek returns that same element and leaves the queue and its size as
\* they were.
C26_QueueFifo ==
  /\ [](subject = "queue" =>
          /\ DoublyValues(theQueue.list) = inside
          /\ Queue_size(theQueue) = Len(inside))
  /\ [][subject = "queue" /\ inside # <<>> /\ clast'.op = "dequeue" =>
          /\ clast'.ok
          /\ clast'.out = <<Head(inside)>>
          /\ DoublyValues(theQueue'.list) = Tail(inside)
          /\ Queue_size(theQueue') = Queue_size(theQueue) - 1]_vars
  /\ [][subject = "queue" /\ inside # <<>> /\ clast'.op = "peek" =>
          /\ clast'.ok
          /\ clast'.out = <<Head(inside)>>
          /\ theQueue' = theQueue
          /\ Queue_size(theQueue') = Queue_size(theQueue)]_vars

C26_Witness ==
  /\ subject = "queue"
  /\ clast.op = "dequeue" /\ clast.ok /\ clast.out = <<0>>
  /\ inside = <<1, 2>>
  /\ Queue_peek(theQueue).ret = 1

\* C27: a stack constructed with an initial element e has size 1, is not
\* empty, and peek() returns e, whatever the value of e.
C27_StackInitialElement ==
  subject = "stack" /\ clast.op = "new" /\ clast.arg # Undefined =>
    /\ Stack_size(theStack) = 1
    /\ ~Stack_isEmpty(theStack)
    /\ Stack_peek(theStack).ok
    /\ Stack_peek(theStack).ret = clast.arg

\* C28: pop and peek on a stack, dequeue and peek on a queue, when no element
\* is in the container, throw RangeError and leave the container empty, with
\* size 0.
C28_EmptyContainerFails ==
  /\ [][subject = "stack" /\ inside = <<>> /\ clast'.op \in {"pop", "peek"} =>
          /\ ~clast'.ok
          /\ theStack' = theStack
          /\ Stack_size(theStack') = 0
          /\ Stack_isEmpty(theStack')]_vars
  /\ [][subject = "queue" /\ inside = <<>> /\ clast'.op \in {"dequeue", "peek"} =>
          /\ ~clast'.ok
          /\ theQueue' = theQueue
          /\ Queue_size(theQueue') = 0
          /\ Queue_isEmpty(theQueue')]_vars

C28_Witness ==
  /\ subject = "stack"
  /\ clast.op = "peek" /\ ~clast.ok
  /\ Stack_size(theStack) = 0

\* The index is out of the bounds of a list of the length given.
OutOfBounds(index, length) == index < 0 \/ index >= length

\* C29: removeAt(index), on the singly and on the doubly linked list alike,
\* throws RangeError whenever index < 0 or index >= length, and then removes
\* nothing and leaves the length as it was.
C29_RemoveAtOutOfBounds ==
  [][llast'.op = "removeAt" =>
       /\ OutOfBounds(llast'.index, sll.size) =>
            ~llast'.singly.ok /\ sll' = sll
       /\ OutOfBounds(llast'.index, dll.size) =>
            ~llast'.doubly.ok /\ dll' = dll]_vars

\* C30: given the same calls, the two lists return the same values or both
\* throw at every step, and have the same length and the same iteration
\* order after it.
C30_ListsEquivalent ==
  /\ llast.singly = llast.doubly
  /\ sll.size = dll.size
  /\ SinglyValues(sll) = DoublyValues(dll)

\* The sequence s with x put at index (from 0), the others kept in order.
InsertAt(s, index, x) ==
  SubSeq(s, 1, index) \o <<x>> \o SubSeq(s, index + 1, Len(s))

\* C31: addAt(item, index) with 0 <= index <= length puts the item where
\* peekAt(index) gives it, keeps the other elements in their order, makes
\* the length one more and, at index = length, makes peekLast give the item;
\* with any other index it throws RangeError and leaves the list as it was.
\* This on the singly and on the doubly linked list alike.
C31_AddAt ==
  [][llast'.op = "addAt" =>
       LET index == llast'.index
           item == llast'.item
       IN IF subject = "singly"
            THEN IF 0 <= index /\ index <= sll.size
                   THEN /\ llast'.singly.ok
                        /\ SinglyValues(sll') = InsertAt(SinglyValues(sll), index, item)
                        /\ sll'.size = sll.size + 1
                        /\ SinglyPeekAt(sll', index) = Result(TRUE, sll', item)
                        /\ index = sll.size =>
                             SinglyPeekLast(sll') = Result(TRUE, sll', item)
                   ELSE ~llast'.singly.ok /\ sll' = sll
            ELSE IF 0 <= index /\ index <= dll.size
                   THEN /\ llast'.doubly.ok
                        /\ DoublyValues(dll') = InsertAt(DoublyValues(dll), index, item)
                        /\ dll'.size = dll.size + 1
                        /\ DoublyPeekAt(dll', index) = Result(TRUE, dll', item)
                        /\ index = dll.size =>
                             DoublyPeekLast(dll') = Result(TRUE, dll', item)
                   ELSE ~llast'.doubly.ok /\ dll' = dll]_vars

C31_Witness ==
  /\ llast.op = "addAt" /\ llast.index = 1 /\ llast.item = 1
  /\ subject = "doubly" /\ llast.doubly.ok
  /\ DoublyValues(dll) = <<0, 1, 0>>


\* The node reached from n by left links alone: the in-order successor of a
\* node whose right child is n.
RECURSIVE Leftmost(_, _)
Leftmost(h, n) == IF h[n].left = NULL THEN n ELSE Leftmost(h, h[n].left)

\* The nodes with both children whose in-order successor is not their right
\* child.
FarSuccessorNodes ==
  {n \in DOMAIN nodes :
     /\ nodes[n].left # NULL /\ nodes[n].right # NULL
     /\ nodes[nodes[n].right].left # NULL}

\* C32: remove of a node with both children whose in-order successor is not
\* its direct right child sets the left link of the node whose left child the
\* successor is to the successor's right child, so that afterwards exactly
\* one node reachable from the root holds the successor's value.
C32_SuccessorDetached ==
  \A n \in FarSuccessorNodes :
    LET successor == Leftmost(nodes, nodes[n].right)
        actualParent == CHOOSE p \in DOMAIN nodes : nodes[p].left = successor
        res == remove(nodes, root, size, nodes[n].value)
    IN find(nodes, root, nodes[n].value) = n =>
         /\ res.ok
         /\ res.nodes[actualParent].left = nodes[successor].right
         /\ Cardinality({m \in SubTree(res.nodes, res.root) :
                           res.nodes[m].value = nodes[successor].value}) = 1


\* tree.isEmpty
TreeIsEmpty(s) == s = 0

\* C33: the number of nodes reachable from the root equals size, no two
\* reachable nodes hold values that compare equal, size is never negative,
\* and isEmpty is true exactly when there is no root.
C33_NodeCount ==
  /\ Cardinality(SubTree(nodes, root)) = size
  /\ \A n, m \in SubTree(nodes, root) :
       comparator(nodes[n].value, nodes[m].value) = 0 => n = m
  /\ size >= 0
  /\ TreeIsEmpty(size) <=> root = NULL


\* The places a node is linked from: the pairs of a parent and a side.
ParentLinks(n) ==
  {<<p, "left">> : p \in {q \in SubTree(nodes, root) : nodes[q].left = n}}
    \cup {<<p, "right">> : p \in {q \in SubTree(nodes, root) : nodes[q].right = n}}

\* C34: the left/right links form a tree: the root is no node's child, every
\* other node is the child of exactly one node on exactly one side, and no
\* node is reached again from one of its own children.
C34_TreeShape ==
  \A n \in SubTree(nodes, root) :
    /\ Cardinality(ParentLinks(n)) = IF n = root THEN 0 ELSE 1
    /\ n \notin SubTree(nodes, nodes[n].left)
    /\ n \notin SubTree(nodes, nodes[n].right)


\* C35: in remove, once the last element is swapped into the removed index,
\* it is sifted up first.  When sift-up moved it, the array is left as
\* sift-up made it, with no sift-down, and the heap property holds at every
\* index (ties with the parent or the children included); when sift-up left
\* it at the index, the array is what sift-down from that index makes of it.
C35_RemoveSiftOrder ==
  [][hlast'.op = "remove" /\ sifted' # NoSift =>
       \A u \in {heapifyUp(heapKind, Front(swapWithLast(heap, sifted'.index)),
                           sifted'.index)} :
          /\ sifted'.newIndex = u.index
          /\ u.index # sifted'.index =>
               /\ heap' = u.heap
               /\ HeapProperty(heapKind, u.heap)
          /\ u.index = sifted'.index =>
               heap' = heapifyDown(heapKind, u.heap, u.index).heap]_vars

C35_Witness ==
  /\ hlast.op = "remove" /\ hlast.ok
  /\ sifted = [index |-> 3, newIndex |-> 1]
  /\ heapKind = "max"
  /\ heap = <<2, 2, 2, 1, 0>>


\* The steps of heapifyDown(index) on array hp: the array and the index at
\* each turn of the loop where a child breaks the heap property against the
\* element being moved.
RECURSIVE DownSteps(_, _, _)
DownSteps(kind, hp, index) ==
  LET c == childrenIndexesOf(index)
      current == At(hp, index)
      breaks(child) == exists(child) /\ HeapComparator(kind, current, child) = -1
  IN IF exists(current) /\ (breaks(At(hp, c[1])) \/ breaks(At(hp, c[2])))
       THEN LET to == toSwapIndex(kind, hp, index)
            IN {<<hp, index>>} \cup DownSteps(kind, swap(hp, to, index), to)
       ELSE {}

\* The steps of the sift-downs the constructor makes, from index i down to 0.
RECURSIVE ConstructSteps(_, _, _)
ConstructSteps(kind, hp, i) ==
  IF i < 0 THEN {}
  ELSE DownSteps(kind, hp, i)
         \cup ConstructSteps(kind, heapifyDown(kind, hp, i).heap, i - 1)

\* At the step, the element is swapped with a child that exists and has no
\* lower priority than the other child, the left one when they tie, and after
\* the swap the parent has no lower priority than either of its children.
ChildChosen(kind, step) ==
  LET hp == step[1]
      index == step[2]
      left == 2 * index + 1
      right == 2 * index + 2
      to == toSwapIndex(kind, hp, index)
      after == swap(hp, to, index)
  IN /\ to \in {left, right}
     /\ exists(At(hp, to))
     /\ \A j \in {left, right} :
          exists(At(hp, j)) => HeapComparator(kind, At(hp, to), At(hp, j)) # -1
     /\ (exists(At(hp, left)) /\ exists(At(hp, right))
           /\ HeapComparator(kind, At(hp, left), At(hp, right)) = 0) => to = left
     /\ \A j \in {left, right} :
          exists(At(after, j)) =>
            HeapComparator(kind, At(after, index), At(after, j)) # -1

\* C36: at every step of heapifyDown where a child breaks the heap property
\* against the element being moved (in the constructor, in poll and in
\* remove) the element is swapped with the higher-priority one of its
\* existing children, the left one on a tie, and the new parent then has
\* equal or higher priority than both of its children.
C36_SiftDownChild ==
  /\ [](hlast.op = "new" =>
          \A step \in ConstructSteps(heapKind, hlast.arg, Len(hlast.arg) - 1) :
            ChildChosen(heapKind, step))
  /\ [][hlast'.op = "poll" /\ hlast'.ok =>
          \A step \in DownSteps(heapKind, Front(swapWithLast(heap, 0)), 0) :
            ChildChosen(heapKind, step)]_vars
  /\ [][hlast'.op = "remove" /\ sifted' # NoSift
          /\ sifted'.newIndex = sifted'.index =>
          \A step \in DownSteps(heapKind,
                                Front(swapWithLast(heap, sifted'.index)),
                                sifted'.index) :
            ChildChosen(heapKind, step)]_vars

C36_Witness ==
  /\ heapKind = "max"
  /\ hlast = Call("poll", Undefined, TRUE, <<2>>)
  /\ heap = <<2, 1, 2, 0>>


\* The iterator object o after k calls of next() on it, the tree left alone.
RECURSIVE NextTimes(_, _)
NextTimes(o, k) ==
  IF k = 0 THEN o ELSE IteratorNext(nodes, root, NextTimes(o, k - 1))

\* C37: on a tree that is not modified meanwhile, each of the four iterators
\* yields exactly as many values as there are nodes reachable from the root,
\* then returns done, and returns done with no value at every later next().
C37_IteratorsTerminate ==
  \A kind \in IterKinds :
    LET n == Cardinality(SubTree(nodes, root))
        o == NextTimes(NewIterator(kind, nodes, root), n)
        p == IteratorNext(nodes, root, o)
        q == IteratorNext(nodes, root, p)
    IN /\ Len(o.out) = n
       /\ n > 0 => ~o.done
       /\ p.done /\ p.out = o.out
       /\ q.done /\ q.out = o.out


\* The nodes met from node by following next, in order.
RECURSIVE ForwardFrom(_, _, _)
ForwardFrom(h, node, fuel) ==
  IF node = NULL \/ fuel = 0 THEN <<>>
  ELSE <<node>> \o ForwardFrom(h, h[node].next, fuel - 1)

\* C38: in the doubly linked list, after any calls, head.previous and
\* tail.next are null, n.next.previous is n for every node n that has a next
\* node, tail is the node reached last by following next from head, length
\* is the number of nodes, and head and tail are both null exactly when
\* length is 0.
C38_DoublyLinked ==
  LET h == dll.nodes
      chain == ForwardFrom(h, dll.head, Cardinality(DOMAIN h) + 1)
  IN /\ dll.head # NULL => h[dll.head].previous = NULL
     /\ dll.tail # NULL => h[dll.tail].next = NULL
     /\ \A i \in 1..Len(chain) :
          h[chain[i]].next # NULL => h[h[chain[i]].next].previous = chain[i]
     /\ dll.tail = IF chain = <<>> THEN NULL ELSE chain[Len(chain)]
     /\ dll.size = Len(chain)
     /\ Range(chain) = DOMAIN h
     /\ (dll.head = NULL /\ dll.tail = NULL) <=> dll.size = 0
     /\ dll.head = NULL <=> dll.tail = NULL

C38_Witness ==
  /\ subject = "doubly"
  /\ llast.op = "removeAt" /\ llast.index = 1 /\ llast.doubly.ok
  /\ dll.size = 2
  /\ DoublyValues(dll) = <<0, 1>>


\* C39: for every index i of the array and the one after them,
\* parentIndexOf(i) is floor((i - 1) / 2), an integer from 0 to i - 1, when
\* i > 0 and -1 when i = 0, and the two entries of childrenIndexesOf(i) are
\* 2i + 1 and 2i + 2, each with parent i.
C39_IndexArithmetic ==
  \A i \in 0..Len(heap) :
    /\ i > 0 => /\ parentIndexOf(i) = (i - 1) \div 2
                /\ 2 * parentIndexOf(i) \in {i - 1, i - 2}
                /\ parentIndexOf(i) \in 0..(i - 1)
    /\ i = 0 => parentIndexOf(i) = -1
    /\ childrenIndexesOf(i) = <<2 * i + 1, 2 * i + 2>>
    /\ parentIndexOf(childrenIndexesOf(i)[1]) = i
    /\ parentIndexOf(childrenIndexesOf(i)[2]) = i

C39_Witness ==
  /\ hlast.op = "add" /\ hlast.ok
  /\ Len(heap) = 6
  /\ heap[6] = hlast.arg
  /\ parentIndexOf(5) = 2


====
